---- MODULE Spec2Model ----
(***************************************************************************)
(* A state-machine model of the session/CAPTCHA-resilient scraping         *)
(* pipeline of aliexpress-store-scraper:                                   *)
(*   - StoreCredentialsNetworkScraper (scrape_store_credentials,           *)
(*     _scrape_single_store, the response handler, the session restart),   *)
(*   - the CAPTCHA solver entry points,                                    *)
(*   - the cookie generators' session cache (load / save / expiry),        *)
(*   - a save of the session to its file, statement by statement,          *)
(*   - AliExpressClient (signature, call_api),                             *)
(*   - the extraction of images from a JSON response,                      *)
(*   - the scraper's coroutines on the asyncio event loop,                 *)
(*   - AtomicBatchSellerProcessor (process_all_atomic),                    *)
(*   - the text helpers (image format, JSONP parsers, API type),           *)
(*   - EnhancedAliExpressClient (get_product_with_auto_cookies).           *)
(* Each subsystem has its own specification over the shared variables; the *)
(* variables of the other subsystems stay at their initial values.         *)
(***************************************************************************)
EXTENDS Integers, Sequences, FiniteSets, TLC

(***************************************************************************)
(* Bounds of the model.                                                    *)
(***************************************************************************)
MaxTargets == 2
MaxRetriesCfg == 2
MaxCaptchaCfg == 2
MaxResponses == 1
MaxDomImages == 1
MaxLoopErrors == 1

(***************************************************************************)
(* Store identifiers are digit strings; "12" is a prefix of "123".  The    *)
(* store lists given to a run are the lists of up to MaxTargets stores     *)
(* that alternate between the two, starting with "123".                   *)
(***************************************************************************)
S12 == <<"1", "2">>
S123 == <<"1", "2", "3">>

StoreList(first, n) ==
    [k \in 1..n |-> IF k % 2 = 1 THEN first ELSE (IF first = S12 THEN S123 ELSE S12)]

StoreLists == {StoreList(first, n) : first \in {S123}, n \in 0..MaxTargets}

StartsWith(s, p) == Len(p) <= Len(s) /\ SubSeq(s, 1, Len(p)) = p

Min(a, b) == IF a < b THEN a ELSE b

VARIABLES
    \* ---- StoreCredentialsNetworkScraper: configuration and input ----
    store_ids, max_retries, max_captcha_attempts,
    \* ---- scrape_store_credentials / _scrape_single_store locals ----
    pc, i, attempt, success, result, results, page, response,
    \* ---- _wait_for_credential_api / image-wait loop locals ----
    initial_count, total_waited, wait_time, last_captcha_check,
    \* ---- scraper object fields ----
    browser, context, session_active, captcha_failure_count,
    network_data, image_data,
    \* ---- environment: pages open in the context, responses left ----
    pages, next_page, responses_left, loop_errors,
    \* ---- history: the solver event of the last step, the outcomes of the
    \* ---- restarts at this store boundary, consecutive failed solver runs,
    \* ---- calls of _scrape_single_store for the current store ----
    last, restarts, consec_failures, invocations,
    \* ---- a CAPTCHA solver entry point: which one, its attempt limit, its
    \* ---- position, its attempt counter, what the page shows, its result ----
    entry, max_attempts, solver_pc, captcha_attempts, page_shows,
    solver_result,
    \* ---- a cookie generator: which class, its validity window, the clock,
    \* ---- the cache file, the session in memory, the last call and what
    \* ---- it returned ----
    generator, cache_validity_seconds, now, ticks, cache_file, session_data,
    op, outcome,
    \* ---- a save of the session: the class that saves, its position, the
    \* ---- text of the file on disk, the text the file held when the save
    \* ---- was called, the text the save writes, the saves made so far ----
    saver, save_pc, file_text, old_text, new_text, saves,
    \* ---- AliExpressClient: the method called, its arguments, what the
    \* ---- clock and the network do during the call, the value returned,
    \* ---- the requests sent on self.session ----
    client_call, client_args, client_env, client_ret, requests,
    \* ---- handle_response on one JSON response: the parsed body, whether
    \* ---- the url names the credential API, the position of the handler,
    \* ---- the image table, whether the handler caught an exception, the
    \* ---- capture table ----
    json_data, credential_url, handler_pc, image_table, handler_error,
    capture_table,
    \* ---- the event loop: the coroutine that holds it, the statement
    \* ---- _scrape_single_store is at, the statement each response handler
    \* ---- is at, the store's entry of the capture table and of the image
    \* ---- table, what the snapshot into the result has read ----
    running, orch_pc, resp_pc, net_entry, img_entry, snap,
    \* ---- the cookies in the browser context of the scraper, as
    \* ---- _load_cookies_to_context left them ----
    context_cookies,
    \* ---- AtomicBatchSellerProcessor.process_all_atomic: the input, the
    \* ---- batch size, the statement it is at, the index of the batch, the
    \* ---- call of _process_atomic_batch in progress, that call's
    \* ---- batch_results, batch_errors and critical_error (and what it
    \* ---- returned), batch_failures, retry_count, token_expired, the
    \* ---- times the operator was asked, self.results, the rows of the
    \* ---- CSV file, self.failed_products ----
    products, batch_size, batch_pc, batch_idx, call_site, batch_results,
    batch_errors, critical_error, batch_failures, retry_count, token_expired,
    prompts, seller_results, csv_rows, failed_products,
    \* ---- a call of a text helper (_detect_image_format, a JSONP parser,
    \* ---- _get_api_type): its name, its argument, what it returned ----
    helper, helper_arg, helper_ret,
    \* ---- EnhancedAliExpressClient.get_product_with_auto_cookies: the
    \* ---- statement it is at, self.auto_retry, the session cache file of
    \* ---- its cookie generator, the argument of the running
    \* ---- _get_valid_cookies, what _get_valid_cookies returned, the frames
    \* ---- of get_product_with_auto_cookies on the call stack, the product
    \* ---- result, and the browser launches, product API calls and
    \* ---- recursive calls of _get_valid_cookies made so far ----
    enh_pc, auto_retry, enh_cache, force_refresh, cookie_result, enh_frames,
    enh_result, generations, api_calls, recursions

scraperVars ==
    <<store_ids, max_retries, max_captcha_attempts, pc, i, attempt, success,
      result, results, page, response, initial_count, total_waited, wait_time,
      last_captcha_check, browser, context, session_active,
      captcha_failure_count, network_data, image_data, pages, next_page,
      responses_left, loop_errors, last, restarts, consec_failures,
      invocations>>

solverVars ==
    <<entry, max_attempts, solver_pc, captcha_attempts, page_shows,
      solver_result>>

sessionVars ==
    <<generator, cache_validity_seconds, now, ticks, cache_file, session_data,
      op, outcome>>

saveVars == <<saver, save_pc, file_text, old_text, new_text, saves>>

clientVars == <<client_call, client_args, client_env, client_ret, requests>>

extractVars ==
    <<json_data, credential_url, handler_pc, image_table, handler_error,
      capture_table>>

loopStateVars == <<running, orch_pc, resp_pc, net_entry, img_entry, snap>>

contextVars == <<context_cookies>>

batchVars ==
    <<products, batch_size, batch_pc, batch_idx, call_site, batch_results,
      batch_errors, critical_error, batch_failures, retry_count,
      token_expired, prompts, seller_results, csv_rows, failed_products>>

helperVars == <<helper, helper_arg, helper_ret>>

enhVars ==
    <<enh_pc, auto_retry, enh_cache, force_refresh, cookie_result,
      enh_frames, enh_result, generations, api_calls, recursions>>

restVars ==
    <<saveVars, clientVars, extractVars, loopStateVars, contextVars,
      batchVars, helperVars, enhVars>>

vars == <<scraperVars, solverVars, sessionVars, restVars>>

notSaveVars ==
    <<scraperVars, solverVars, sessionVars, clientVars, extractVars,
      loopStateVars,
      contextVars,
      batchVars,
      helperVars,
      enhVars>>

notClientVars ==
    <<scraperVars, solverVars, sessionVars, saveVars, extractVars,
      loopStateVars,
      contextVars,
      batchVars,
      helperVars,
      enhVars>>

notExtractVars ==
    <<scraperVars, solverVars, sessionVars, saveVars, clientVars,
      loopStateVars,
      contextVars,
      batchVars,
      helperVars,
      enhVars>>

notLoopVars ==
    <<scraperVars, solverVars, sessionVars, saveVars, clientVars,
      extractVars,
      contextVars,
      batchVars,
      helperVars,
      enhVars>>

notContextVars ==
    <<scraperVars, solverVars, sessionVars, saveVars, clientVars, extractVars,
      loopStateVars,
      batchVars,
      helperVars,
      enhVars>>

notRestartVars ==
    <<solverVars, sessionVars, saveVars, clientVars, extractVars,
      loopStateVars, batchVars,
      helperVars,
      enhVars>>

notBatchVars ==
    <<scraperVars, solverVars, sessionVars, saveVars, clientVars, extractVars,
      loopStateVars, contextVars,
      helperVars,
      enhVars>>

notHelperVars ==
    <<scraperVars, solverVars, sessionVars, saveVars, clientVars,
      extractVars, loopStateVars, contextVars, batchVars,
      enhVars>>

notEnhVars ==
    <<scraperVars, solverVars, sessionVars, saveVars, clientVars,
      extractVars, loopStateVars, contextVars, batchVars, helperVars>>

(***************************************************************************)
(* Each subsystem runs on its own; the others rest in these states.        *)
(***************************************************************************)
SolverIdle ==
    /\ entry = "none"
    /\ max_attempts = 0
    /\ solver_pc = "idle"
    /\ captcha_attempts = 0
    /\ page_shows = "neither"
    /\ solver_result = "pending"

NoSession == [kind |-> "none"]

SessionIdle ==
    /\ generator = "none"
    /\ cache_validity_seconds = 0
    /\ now = 0
    /\ ticks = 0
    /\ cache_file = [kind |-> "absent"]
    /\ session_data = NoSession
    /\ op = "init"
    /\ outcome = "none"

SaveIdle ==
    /\ saver = "none"
    /\ save_pc = "idle"
    /\ file_text = <<>>
    /\ old_text = <<>>
    /\ new_text = <<>>
    /\ saves = 0

ClientIdle ==
    /\ client_call = "none"
    /\ client_args = <<>>
    /\ client_env = <<>>
    /\ client_ret = <<>>
    /\ requests = 0

ExtractIdle ==
    /\ json_data = <<>>
    /\ credential_url = FALSE
    /\ handler_pc = "idle"
    /\ image_table = {}
    /\ handler_error = FALSE
    /\ capture_table = {}

LoopIdle ==
    /\ running = "none"
    /\ orch_pc = "idle"
    /\ resp_pc = <<>>
    /\ net_entry = <<>>
    /\ img_entry = <<>>
    /\ snap = <<>>

ContextIdle ==
    /\ context_cookies = [expires |-> <<>>, add_failed |-> FALSE]

BatchIdle ==
    /\ products = <<>>
    /\ batch_size = 1
    /\ batch_pc = "idle"
    /\ batch_idx = 0
    /\ call_site = "none"
    /\ batch_results = <<>>
    /\ batch_errors = <<>>
    /\ critical_error = "None"
    /\ batch_failures = <<>>
    /\ retry_count = 0
    /\ token_expired = FALSE
    /\ prompts = 0
    /\ seller_results = <<>>
    /\ csv_rows = <<>>
    /\ failed_products = <<>>

HelperIdle ==
    /\ helper = "none"
    /\ helper_arg = <<>>
    /\ helper_ret = <<>>

EnhIdle ==
    /\ enh_pc = "idle"
    /\ auto_retry = FALSE
    /\ enh_cache = <<>>
    /\ force_refresh = FALSE
    /\ cookie_result =
           [success |-> FALSE, cookies |-> <<>>, from_cache |-> FALSE]
    /\ enh_frames = <<>>
    /\ enh_result = [success |-> FALSE, retry_attempted |-> FALSE]
    /\ generations = 0
    /\ api_calls = 0
    /\ recursions = 0

RestIdle ==
    /\ SaveIdle /\ ClientIdle /\ ExtractIdle /\ LoopIdle /\ ContextIdle
    /\ BatchIdle /\ HelperIdle /\ EnhIdle


(***************************************************************************)
(* Keys of the capture table and the image table.  A key is the string     *)
(* f"{store_id}_{suffix}"; an entry remembers the page whose handler (or   *)
(* attempt) wrote it.                                                      *)
(***************************************************************************)
KeyString(e) == e.sid \o <<"_", e.suffix>>

KeyBelongsTo(e, store_id) == StartsWith(KeyString(e), store_id)

TablePut(table, sid, suffix, writer) ==
    {e \in table : ~(e.sid = sid /\ e.suffix = suffix)}
        \cup {[sid |-> sid, suffix |-> suffix, page |-> writer]}

ClearStore(table, store_id) == {e \in table : ~KeyBelongsTo(e, store_id)}

StoreEntries(table, store_id) == {e \in table : KeyBelongsTo(e, store_id)}

NoResult == [store_id |-> <<>>, status |-> "none", network_data |-> {},
             images |-> {}, error |-> FALSE]

NewResult(store_id) ==
    [store_id |-> store_id, status |-> "error", network_data |-> {},
     images |-> {}, error |-> FALSE]

(***************************************************************************)
(* Session-health counters.                                                *)
(***************************************************************************)
ShouldRestartSession == captcha_failure_count >= max_captcha_attempts

IncrementCaptchaFailure(count) == count + 1

ResetCaptchaCounter(count) == IF count > 0 THEN 0 ELSE count

(***************************************************************************)
(* Groups of variables an action leaves alone.                             *)
(***************************************************************************)
cfgVars == <<store_ids, max_retries, max_captcha_attempts>>
loopVars == <<i, attempt, success, results>>
waitVars == <<initial_count, total_waited, wait_time, last_captcha_check>>
sessVars == <<browser, context, session_active>>
tableVars == <<network_data, image_data>>
envVars == <<pages, next_page, responses_left>>

CurrentStore == store_ids[i]

(***************************************************************************)
(* _setup_browser: playwright start and chromium launch, then new_context. *)
(* Either call may raise; the fields assigned before the raise keep their  *)
(* new values.                                                             *)
(***************************************************************************)
SetupOutcomes == {"ok", "launch_fail", "context_fail"}

SetupBrowser(o, b, c, a) ==
    CASE o = "ok"           -> [browser |-> "live", context |-> "live", session_active |-> TRUE]
      [] o = "launch_fail"  -> [browser |-> b, context |-> c, session_active |-> a]
      [] o = "context_fail" -> [browser |-> "live", context |-> c, session_active |-> a]

(***************************************************************************)
(* _restart_browser_session: close context and browser (closing a dead one *)
(* may raise), clear the handles and the CAPTCHA counter, set up a fresh   *)
(* browser.  raised tells whether the call raised.                         *)
(***************************************************************************)
RestartOutcomes ==
    {"ok", "launch_fail", "context_fail"}
        \cup (IF context = "dead" \/ browser = "dead" THEN {"close_fail"} ELSE {})

RestartKeepsCounter(o) ==
    [browser |-> "live", context |-> "live", session_active |-> TRUE,
     count |-> captcha_failure_count, pages |-> {}, raised |-> FALSE]

RestartBrowserSession(o) ==
    IF o = "close_fail"
    THEN [browser |-> browser, context |-> context,
          session_active |-> session_active,
          count |-> captcha_failure_count, pages |-> pages, raised |-> TRUE]
    ELSE LET s == SetupBrowser(o, "none", "none", FALSE)
         IN  [browser |-> s.browser, context |-> s.context,
              session_active |-> (o = "ok"),
              count |-> 0, pages |-> {}, raised |-> (o # "ok")]

RestartFailureEscapes == FALSE

(***************************************************************************)
(* The try/except around a restart in scrape_store_credentials: the        *)
(* exception of a failed restart is caught and the loop goes on.           *)
(***************************************************************************)
RestartFailureCaught == TRUE

Restart(then_pc) ==
    \E o \in RestartOutcomes :
      LET r == RestartBrowserSession(o)
      IN  /\ browser' = r.browser
          /\ context' = r.context
          /\ session_active' = r.session_active
          /\ captcha_failure_count' = r.count
          /\ pages' = r.pages
          /\ restarts' = Append(restarts, IF r.raised THEN "failed" ELSE "ok")
          /\ pc' = IF r.raised /\ ~RestartFailureCaught THEN "raised" ELSE then_pc

(***************************************************************************)
(* _check_session_health.                                                  *)
(***************************************************************************)
CheckSessionHealth == context = "live" /\ session_active

(***************************************************************************)
(* Where scrape_store_credentials goes after await self._setup_browser():  *)
(* the call is in no try block, so an exception leaves the function.       *)
(***************************************************************************)
AfterSetupCaught(o) == "boundary"

AfterSetup(o) == IF o = "ok" THEN "boundary" ELSE "launch_raised"

(***************************************************************************)
(* scrape_store_credentials: the empty-input return and the initial        *)
(* browser launch, whose failure propagates to the caller.                 *)
(***************************************************************************)
Start ==
    /\ pc = "start"
    /\ IF store_ids = <<>>
       THEN /\ pc' = "done"
            /\ UNCHANGED sessVars
       ELSE \E o \in SetupOutcomes :
              LET s == SetupBrowser(o, browser, context, session_active)
              IN  /\ browser' = s.browser
                  /\ context' = s.context
                  /\ session_active' = s.session_active
                  /\ pc' = AfterSetup(o)
    /\ last' = "step"
    /\ UNCHANGED <<cfgVars, invocations, loopVars, result, page, response,
                   waitVars,
                   captcha_failure_count, tableVars, envVars, loop_errors,
                   restarts, consec_failures>>
    /\ UNCHANGED <<solverVars, sessionVars, restVars>>

(***************************************************************************)
(* Top of the for loop over store_ids: restart when the CAPTCHA counter    *)
(* is at its threshold; a failed restart is caught and ignored.            *)
(***************************************************************************)
BoundaryRestart ==
    /\ pc = "boundary"
    /\ IF ShouldRestartSession
       THEN Restart("health")
       ELSE /\ pc' = "health"
            /\ UNCHANGED <<sessVars, captcha_failure_count, pages, restarts>>
    /\ last' = "step"
    /\ UNCHANGED <<cfgVars, invocations, loopVars, result, page, response,
                   waitVars,
                   tableVars, next_page, responses_left, loop_errors,
                   consec_failures>>
    /\ UNCHANGED <<solverVars, sessionVars, restVars>>

(***************************************************************************)
(* Health check before the store; an unhealthy session is restarted, a     *)
(* failed restart is caught.  Then attempt = 1, success = False,           *)
(* result = {}.                                                            *)
(***************************************************************************)
HealthCheck ==
    /\ pc = "health"
    /\ IF ~CheckSessionHealth
       THEN Restart("loop")
       ELSE /\ pc' = "loop"
            /\ UNCHANGED <<sessVars, captcha_failure_count, pages, restarts>>
    /\ attempt' = 1
    /\ success' = FALSE
    /\ result' = NoResult
    /\ invocations' = 0
    /\ last' = "step"
    /\ UNCHANGED <<cfgVars, i, results, page, response, waitVars, tableVars,
                   next_page, responses_left, loop_errors, consec_failures>>
    /\ UNCHANGED <<solverVars, sessionVars, restVars>>

(***************************************************************************)
(* The while loop of scrape_store_credentials.                             *)
(***************************************************************************)
LoopOneMore == attempt <= max_retries + 1 /\ ~success

LoopContinues == attempt <= max_retries /\ ~success

(***************************************************************************)
(* "if result: results.append(result)".  The list is modelled by the store *)
(* and the status of each result it holds; the tables of a result are      *)
(* observed when the attempt returns it.                                   *)
(***************************************************************************)
ResultsAppend(rs, r) ==
    IF r # NoResult
    THEN Append(rs, [store_id |-> r.store_id, status |-> r.status])
    ELSE rs

(***************************************************************************)
(* The except clause of _scrape_single_store: the error text is recorded,  *)
(* the other fields of the result stay as they are.                        *)
(***************************************************************************)
Raised(r) == [r EXCEPT !.error = TRUE]

(***************************************************************************)
(* _scrape_single_store returns r; its locals are gone.                    *)
(***************************************************************************)
Return(r) ==
    /\ result' = r
    /\ pc' = "returned"
    /\ response' = "none"
    /\ initial_count' = 0
    /\ total_waited' = 0
    /\ wait_time' = 1
    /\ last_captcha_check' = 0

EnterImageWait ==
    /\ initial_count' = 0
    /\ total_waited' = 0
    /\ wait_time' = 1
    /\ last_captcha_check' = 0
    /\ pc' = "image_wait"

(***************************************************************************)
(* _scrape_single_store, first part: the result record, the context check, *)
(* new_page, clearing the store's entries of both tables, and attaching    *)
(* the response handler to the new page.                                   *)
(***************************************************************************)
BeginAttempt ==
    /\ pc = "loop"
    /\ LoopContinues
    /\ IF context = "live"
       THEN /\ result' = NewResult(CurrentStore)
            /\ page' = next_page
            /\ next_page' = next_page + 1
            /\ pages' = pages \cup {[id |-> next_page, sid |-> CurrentStore]}
            /\ network_data' = ClearStore(network_data, CurrentStore)
            /\ image_data' = ClearStore(image_data, CurrentStore)
            /\ pc' = "navigating"
            /\ UNCHANGED <<response, waitVars>>
       ELSE /\ Return(Raised(NewResult(CurrentStore)))
            /\ UNCHANGED <<page, next_page, pages, tableVars>>
    /\ consec_failures' =
           IF attempt = 1 /\ consec_failures >= max_captcha_attempts
           THEN 0 ELSE consec_failures
    /\ invocations' = invocations + 1
    /\ last' = "step"
    /\ UNCHANGED <<cfgVars, loopVars, sessVars, captcha_failure_count,
                   responses_left, loop_errors, restarts>>
    /\ UNCHANGED <<solverVars, sessionVars, restVars>>

(***************************************************************************)
(* After the while loop: append the result, then the next store or the     *)
(* end of the run.                                                         *)
(***************************************************************************)
FinishTarget ==
    /\ pc = "loop"
    /\ ~LoopContinues
    /\ results' = ResultsAppend(results, result)
    /\ IF i < Len(store_ids)
       THEN /\ i' = i + 1
            /\ pc' = "boundary"
            /\ restarts' = <<>>
       ELSE /\ pc' = "done"
            /\ UNCHANGED <<i, restarts>>
    /\ last' = "step"
    /\ UNCHANGED <<cfgVars, invocations, attempt, success, result, page,
                   response,
                   waitVars, sessVars, captcha_failure_count, tableVars,
                   envVars, loop_errors, consec_failures>>
    /\ UNCHANGED <<solverVars, sessionVars, restVars>>

(***************************************************************************)
(* page.goto: it raises (also because the browser died under it), or       *)
(* returns None, or a response with a status.                              *)
(***************************************************************************)
GotoOutcomes == {"raise", "crash", "none", "200", "404"}

GotoReturns ==
    /\ pc = "navigating"
    /\ \E o \in GotoOutcomes :
         CASE o = "raise" ->
                /\ Return(Raised(result))
                /\ UNCHANGED <<browser, context, pages>>
           [] o = "crash" ->
                /\ Return(Raised(result))
                /\ browser' = "dead"
                /\ context' = "dead"
                /\ pages' = {}
           [] OTHER ->
                /\ response' = o
                /\ pc' = "detect"
                /\ UNCHANGED <<result, waitVars, browser, context, pages>>
    /\ last' = "step"
    /\ UNCHANGED <<cfgVars, invocations, loopVars, page, session_active,
                   captcha_failure_count, tableVars, next_page,
                   responses_left, loop_errors, restarts, consec_failures>>
    /\ UNCHANGED <<solverVars, sessionVars, restVars>>

(***************************************************************************)
(* The statement that follows _detect_captcha at initial load: the solver  *)
(* when a challenge was detected, the image wait otherwise.                *)
(***************************************************************************)
AfterDetectSkipsSolver(captcha_detected) == "image_wait"

AfterDetect(captcha_detected) ==
    IF captcha_detected THEN "solve" ELSE "image_wait"

(***************************************************************************)
(* _detect_captcha at initial load.                                        *)
(***************************************************************************)
DetectCaptcha ==
    /\ pc = "detect"
    /\ \E captcha_detected \in BOOLEAN :
         /\ IF AfterDetect(captcha_detected) = "solve"
            THEN /\ pc' = "solve"
                 /\ UNCHANGED waitVars
            ELSE EnterImageWait
         /\ last' = IF captcha_detected THEN "captcha_detected"
                    ELSE "no_captcha"
    /\ UNCHANGED <<cfgVars, invocations, loopVars, result, page, response,
                   sessVars,
                   captcha_failure_count, tableVars, envVars, loop_errors,
                   restarts, consec_failures>>
    /\ UNCHANGED <<solverVars, sessionVars, restVars>>

(***************************************************************************)
(* _solve_captcha at initial load: a solved challenge resets the counter,  *)
(* a failed solver run increments it.                                      *)
(***************************************************************************)
SolveCaptcha ==
    /\ pc = "solve"
    /\ \E solved \in BOOLEAN :
         IF solved
         THEN /\ captcha_failure_count' = ResetCaptchaCounter(captcha_failure_count)
              /\ consec_failures' = 0
              /\ pc' = "post_solve"
              /\ last' = "captcha_solved"
              /\ UNCHANGED waitVars
         ELSE /\ captcha_failure_count' = IncrementCaptchaFailure(captcha_failure_count)
              /\ consec_failures' = Min(consec_failures + 1, max_captcha_attempts)
              /\ EnterImageWait
              /\ last' = "captcha_solve_failed"
    /\ UNCHANGED <<cfgVars, invocations, loopVars, result, page, response,
                   sessVars,
                   tableVars, envVars, loop_errors, restarts>>
    /\ UNCHANGED <<solverVars, sessionVars, restVars>>

(***************************************************************************)
(* _wait_for_credential_api counts the capture-table keys that contain the *)
(* store id and the word credential.                                       *)
(***************************************************************************)
Contains(s, p) ==
    \E k \in 0..(Len(s) - Len(p)) : SubSeq(s, k + 1, k + Len(p)) = p

CredentialCount(store_id) ==
    Cardinality({e \in network_data :
                    /\ Contains(KeyString(e), store_id)
                    /\ Contains(KeyString(e), <<"credential">>)})

(***************************************************************************)
(* After a solved challenge and the 12 s wait: when the page is still on a *)
(* punish URL, navigate to the credentials page again.                     *)
(***************************************************************************)
PostSolve ==
    /\ pc = "post_solve"
    /\ \E punished \in BOOLEAN :
         IF punished
         THEN \E o \in GotoOutcomes \ {"crash"} :
                IF o = "raise"
                THEN Return(Raised(result))
                ELSE /\ response' = o
                     /\ pc' = "renavigated"
                     /\ UNCHANGED <<result, waitVars>>
         ELSE /\ EnterImageWait
              /\ UNCHANGED <<result, response>>
    /\ last' = "step"
    /\ UNCHANGED <<cfgVars, invocations, loopVars, page, sessVars,
                   captcha_failure_count,
                   tableVars, envVars, loop_errors, restarts, consec_failures>>
    /\ UNCHANGED <<solverVars, sessionVars, restVars>>

(***************************************************************************)
(* _wait_for_credential_api (after the 5 s wait, and again after the       *)
(* reload): it returns True when the count has grown past its initial      *)
(* value, False at its timeout; after the first False the page is          *)
(* reloaded and the wait is made once more.                                *)
(***************************************************************************)
StartWaitForCredentialApi ==
    /\ pc \in {"renavigated", "reloaded"}
    /\ initial_count' = CredentialCount(CurrentStore)
    /\ pc' = IF pc = "renavigated" THEN "wait_api_1" ELSE "wait_api_2"
    /\ last' = "step"
    /\ UNCHANGED <<cfgVars, invocations, loopVars, result, page, response,
                   total_waited,
                   wait_time, last_captcha_check, sessVars,
                   captcha_failure_count, tableVars, envVars, loop_errors,
                   restarts, consec_failures>>
    /\ UNCHANGED <<solverVars, sessionVars, restVars>>

WaitForCredentialApiCaptured ==
    /\ pc \in {"wait_api_1", "wait_api_2"}
    /\ CredentialCount(CurrentStore) > initial_count
    /\ EnterImageWait
    /\ last' = "step"
    /\ UNCHANGED <<cfgVars, invocations, loopVars, result, page, response,
                   sessVars,
                   captcha_failure_count, tableVars, envVars, loop_errors,
                   restarts, consec_failures>>
    /\ UNCHANGED <<solverVars, sessionVars, restVars>>

WaitForCredentialApiTimeout ==
    /\ pc \in {"wait_api_1", "wait_api_2"}
    /\ IF pc = "wait_api_1"
       THEN \E reload_raises \in BOOLEAN :
              IF reload_raises
              THEN Return(Raised(result))
              ELSE /\ pc' = "reloaded"
                   /\ initial_count' = 0
                   /\ UNCHANGED <<result, response, total_waited, wait_time,
                                  last_captcha_check>>
       ELSE /\ EnterImageWait
            /\ UNCHANGED <<result, response>>
    /\ last' = "step"
    /\ UNCHANGED <<cfgVars, invocations, loopVars, page, sessVars,
                   captcha_failure_count,
                   tableVars, envVars, loop_errors, restarts, consec_failures>>
    /\ UNCHANGED <<solverVars, sessionVars, restVars>>

(***************************************************************************)
(* _wait_for_certificate_images_with_captcha_monitoring, called with       *)
(* max_wait = 45.                                                          *)
(***************************************************************************)
MaxWait == 45
CaptchaCheckInterval == 10
MaxBackoff == 8
ErrorBackoff == 2

CaptchaCheckOverdue == total_waited - last_captcha_check > CaptchaCheckInterval

CaptchaCheckDue == total_waited - last_captcha_check >= CaptchaCheckInterval

NextWaitTimeDoubling(w) == w * 2

NextWaitTime(w) == Min(w * 2, MaxBackoff)

DomImageSuffix(k) ==
    CASE k = 1 -> "certificate_1"
      [] k = 2 -> "certificate_2"
      [] OTHER -> "certificate_3"

RECURSIVE PutDomImages(_, _, _, _)
PutDomImages(table, store_id, n, writer) ==
    IF n = 0 THEN table
    ELSE TablePut(PutDomImages(table, store_id, n - 1, writer),
                  store_id, DomImageSuffix(n), writer)

(***************************************************************************)
(* The rest of _scrape_single_store once the image wait has returned n     *)
(* images (data URIs or not): store the data-URI images, then the status   *)
(* test on the navigation response.                                        *)
(***************************************************************************)
ResponseOk == response = "200"

ImagesReturned(n, data_uri) ==
    /\ image_data' = IF data_uri
                     THEN PutDomImages(image_data, CurrentStore, n, page)
                     ELSE image_data
    /\ IF ResponseOk
       THEN /\ result' = [result EXCEPT !.status = "success"]
            /\ pc' = "final_wait"
            /\ UNCHANGED <<response, waitVars>>
       ELSE Return([result EXCEPT !.error = TRUE])
    /\ UNCHANGED <<cfgVars, invocations, loopVars, page, sessVars,
                   captcha_failure_count,
                   network_data, envVars, loop_errors, restarts,
                   consec_failures>>

(***************************************************************************)
(* One CAPTCHA re-check of the loop; a failed solver run is only logged.   *)
(***************************************************************************)
ImageWaitCaptchaCheck ==
    /\ pc = "image_wait"
    /\ total_waited < MaxWait
    /\ CaptchaCheckDue
    /\ \E o \in {"step", "dynamic_solved", "dynamic_solve_failed"} :
         last' = o
    /\ last_captcha_check' = total_waited
    /\ UNCHANGED <<cfgVars, invocations, loopVars, pc, result, page, response,
                   initial_count, total_waited, wait_time, sessVars,
                   captcha_failure_count, tableVars, envVars, loop_errors,
                   restarts, consec_failures>>
    /\ UNCHANGED <<solverVars, sessionVars, restVars>>

(***************************************************************************)
(* The image query of one iteration: images found, or the backoff wait.    *)
(***************************************************************************)
ImageWaitQuery ==
    /\ pc = "image_wait"
    /\ total_waited < MaxWait
    /\ ~CaptchaCheckDue
    /\ \E n \in 0..MaxDomImages, data_uri \in BOOLEAN :
         IF n > 0
         THEN ImagesReturned(n, data_uri)
         ELSE /\ data_uri
              /\ total_waited' = total_waited + wait_time
              /\ wait_time' = NextWaitTime(wait_time)
              /\ UNCHANGED <<cfgVars, invocations, loopVars, pc, result, page,
                   response,
                             initial_count, last_captcha_check, sessVars,
                             captcha_failure_count, tableVars, envVars,
                             loop_errors, restarts, consec_failures>>
    /\ last' = "step"
    /\ UNCHANGED <<solverVars, sessionVars, restVars>>

(***************************************************************************)
(* An exception inside the loop body: the except clause waits 2 s, and     *)
(* that wait may raise into _scrape_single_store's except clause.          *)
(***************************************************************************)
ImageWaitError ==
    /\ pc = "image_wait"
    /\ total_waited < MaxWait
    /\ loop_errors < MaxLoopErrors
    /\ loop_errors' = loop_errors + 1
    /\ \E wait_raises \in BOOLEAN :
         IF wait_raises
         THEN Return(Raised(result))
         ELSE /\ total_waited' = total_waited + ErrorBackoff
              /\ UNCHANGED <<pc, result, response, initial_count, wait_time,
                             last_captcha_check>>
    /\ last' = "step"
    /\ UNCHANGED <<cfgVars, invocations, loopVars, page, sessVars,
                   captcha_failure_count,
                   tableVars, envVars, restarts, consec_failures>>
    /\ UNCHANGED <<solverVars, sessionVars, restVars>>

ImageWaitTimeout ==
    /\ pc = "image_wait"
    /\ total_waited >= MaxWait
    /\ ImagesReturned(0, FALSE)
    /\ last' = "step"
    /\ UNCHANGED <<solverVars, sessionVars, restVars>>

(***************************************************************************)
(* The success branch: a 3 s wait, then the snapshot of the store's        *)
(* entries into the result.  When the wait raises the result keeps the     *)
(* status already set.                                                     *)
(***************************************************************************)
Snapshot(r, store_id) ==
    [r EXCEPT !.network_data = StoreEntries(network_data, store_id),
              !.images = StoreEntries(image_data, store_id)]

FinalWait ==
    /\ pc = "final_wait"
    /\ \E wait_raises \in BOOLEAN :
         IF wait_raises
         THEN Return(Raised(result))
         ELSE Return(Snapshot(result, CurrentStore))
    /\ last' = "step"
    /\ UNCHANGED <<cfgVars, invocations, loopVars, page, sessVars,
                   captcha_failure_count,
                   tableVars, envVars, loop_errors, restarts, consec_failures>>
    /\ UNCHANGED <<solverVars, sessionVars, restVars>>

(***************************************************************************)
(* Back in scrape_store_credentials: a success result ends the loop and    *)
(* resets the CAPTCHA counter, any other result counts an attempt.         *)
(***************************************************************************)
AttemptReturned ==
    /\ pc = "returned"
    /\ IF result.status = "success"
       THEN /\ success' = TRUE
            /\ captcha_failure_count' = ResetCaptchaCounter(captcha_failure_count)
            /\ UNCHANGED attempt
       ELSE /\ attempt' = attempt + 1
            /\ UNCHANGED <<success, captcha_failure_count>>
    /\ pc' = "loop"
    /\ last' = "step"
    /\ UNCHANGED <<cfgVars, invocations, i, results, result, page, response,
                   waitVars,
                   sessVars, tableVars, envVars, loop_errors, restarts,
                   consec_failures>>
    /\ UNCHANGED <<solverVars, sessionVars, restVars>>

(***************************************************************************)
(* handle_response, attached to every page an attempt opened and bound to  *)
(* that attempt's store_id.  Pages are never closed by an attempt, so a    *)
(* response may arrive on any page of the live context whenever the        *)
(* orchestrator is suspended.  All writes of one call happen after its     *)
(* last await.                                                             *)
(*   credential_json_image  JSON credential response with data.data.url    *)
(*   credential_json_plain  JSON credential response without an image      *)
(*   credential_jsonp_image text (JSONP) credential response with an image *)
(*   shop_info_text         text response of a shop-info API               *)
(*   ignored                status not 200, or not a certificate API       *)
(***************************************************************************)
ResponseKinds ==
    {"credential_json_image", "credential_json_plain",
     "credential_jsonp_image", "shop_info_text", "ignored"}

GetApiType(kind) ==
    IF kind = "shop_info_text" THEN "shop_info" ELSE "credential"

HandlerNetworkData(table, kind, store_id, writer) ==
    IF kind = "ignored" THEN table
    ELSE TablePut(table, store_id, GetApiType(kind), writer)

HandlerImageData(table, kind, store_id, writer) ==
    CASE kind = "credential_json_image" ->
             TablePut(TablePut(table, store_id, "certificate_t", writer),
                      store_id, "data.data.url_t", writer)
      [] kind = "credential_jsonp_image" ->
             TablePut(table, store_id, "certificate_t", writer)
      [] OTHER -> table

SuspendedAt ==
    {"boundary", "health", "navigating", "detect", "solve", "post_solve",
     "renavigated", "reloaded", "wait_api_1", "wait_api_2", "image_wait",
     "final_wait"}

(***************************************************************************)
(* The handler captures a credential response of the store that            *)
(* _wait_for_credential_api is waiting for, or one was captured earlier in *)
(* the same wait.                                                          *)
(***************************************************************************)
CapturedWhileWaiting(kind, store_id) ==
    /\ pc \in {"wait_api_1", "wait_api_2"}
    /\ \/ /\ kind # "ignored"
          /\ GetApiType(kind) = "credential"
          /\ store_id = CurrentStore
       \/ last = "credential_captured"

HandleResponse ==
    /\ pc \in SuspendedAt
    /\ context = "live"
    /\ responses_left > 0
    /\ \E p \in pages, kind \in ResponseKinds :
         /\ network_data' = HandlerNetworkData(network_data, kind, p.sid, p.id)
         /\ image_data' = HandlerImageData(image_data, kind, p.sid, p.id)
         /\ last' = IF CapturedWhileWaiting(kind, p.sid)
                    THEN "credential_captured" ELSE "step"
    /\ responses_left' = responses_left - 1
    /\ UNCHANGED <<cfgVars, invocations, loopVars, pc, result, page, response,
                   waitVars,
                   sessVars, captcha_failure_count, pages, next_page,
                   loop_errors, restarts, consec_failures>>
    /\ UNCHANGED <<solverVars, sessionVars, restVars>>

(***************************************************************************)
(* The browser process dies between two stores.                            *)
(***************************************************************************)
BrowserCrash ==
    /\ pc = "boundary"
    /\ context = "live"
    /\ browser' = "dead"
    /\ context' = "dead"
    /\ pages' = {}
    /\ last' = "step"
    /\ UNCHANGED <<cfgVars, invocations, loopVars, pc, result, page, response,
                   waitVars,
                   session_active, captcha_failure_count, tableVars,
                   next_page, responses_left, loop_errors, restarts,
                   consec_failures>>
    /\ UNCHANGED <<solverVars, sessionVars, restVars>>

(***************************************************************************)
(* The scraper after its constructor, with the caller's configuration and  *)
(* store list.                                                             *)
(***************************************************************************)
ScraperFields ==
    /\ i = 1
    /\ attempt = 1
    /\ success = FALSE
    /\ result = NoResult
    /\ results = <<>>
    /\ page = 0
    /\ response = "none"
    /\ initial_count = 0
    /\ total_waited = 0
    /\ wait_time = 1
    /\ last_captcha_check = 0
    /\ browser = "none"
    /\ context = "none"
    /\ session_active = FALSE
    /\ captcha_failure_count = 0
    /\ network_data = {}
    /\ image_data = {}
    /\ pages = {}
    /\ next_page = 1
    /\ responses_left = MaxResponses
    /\ loop_errors = 0
    /\ last = "init"
    /\ restarts = <<>>
    /\ consec_failures = 0
    /\ invocations = 0

ScraperIdle ==
    /\ store_ids = <<>>
    /\ max_retries = 0
    /\ max_captcha_attempts = 1
    /\ pc = "idle"
    /\ ScraperFields

Init ==
    /\ store_ids \in StoreLists
    /\ max_retries \in 0..MaxRetriesCfg
    /\ max_captcha_attempts \in 1..MaxCaptchaCfg
    /\ pc = "start"
    /\ ScraperFields
    /\ SolverIdle
    /\ SessionIdle
    /\ RestIdle

Next ==
    \/ Start
    \/ BoundaryRestart
    \/ HealthCheck
    \/ BeginAttempt
    \/ FinishTarget
    \/ GotoReturns
    \/ DetectCaptcha
    \/ SolveCaptcha
    \/ PostSolve
    \/ StartWaitForCredentialApi
    \/ WaitForCredentialApiCaptured
    \/ WaitForCredentialApiTimeout
    \/ ImageWaitCaptchaCheck
    \/ ImageWaitQuery
    \/ ImageWaitError
    \/ ImageWaitTimeout
    \/ FinalWait
    \/ AttemptReturned
    \/ HandleResponse
    \/ BrowserCrash

Spec == Init /\ [][Next]_vars

(***************************************************************************)
(*                      CAPTCHA solver entry points                        *)
(*                                                                         *)
(* entry is the entry point that runs:                                     *)
(*   solve_captcha_on_url       AliExpressCaptchaSolver (src/captcha_      *)
(*                              solver.py), a while loop on the attempts   *)
(*   detect_and_solve_captcha   AdvancedCaptchaSolver, a fixed chain of    *)
(*                              slide strategies                           *)
(*   _solve_captcha_challenge   the cookie generators, a for loop          *)
(* page_shows is what the page shows when the solver looks at it; the page *)
(* may change between any two looks.                                       *)
(***************************************************************************)
MaxAttemptsCfg == 3

Entries ==
    {"solve_captcha_on_url", "detect_and_solve_captcha",
     "_solve_captcha_challenge"}

PageStates == {"captcha", "products", "neither"}

Strategies == <<"slide", "improved", "final", "max_distance">>

SolverReturn(value) ==
    /\ solver_pc' = "returned"
    /\ solver_result' = value

SolverRunning == solver_pc \notin {"idle", "returned"}

PageChanges ==
    /\ SolverRunning
    /\ \E shows \in PageStates \ {page_shows} : page_shows' = shows
    /\ UNCHANGED <<entry, max_attempts, solver_pc, captcha_attempts,
                   solver_result>>
    /\ UNCHANGED <<scraperVars, sessionVars, restVars>>

(***************************************************************************)
(* solve_captcha_on_url: goto, then the loop; its else branch ("Waiting    *)
(* for page to load...") sleeps and goes round without counting.           *)
(***************************************************************************)
UrlGoto ==
    /\ entry = "solve_captcha_on_url"
    /\ solver_pc = "start"
    /\ \E raises \in BOOLEAN :
         IF raises THEN SolverReturn("false")
         ELSE /\ solver_pc' = "loop_head"
              /\ UNCHANGED solver_result
    /\ UNCHANGED <<entry, max_attempts, captcha_attempts, page_shows>>
    /\ UNCHANGED <<scraperVars, sessionVars, restVars>>

UrlLoopTest ==
    /\ entry = "solve_captcha_on_url"
    /\ solver_pc = "loop_head"
    /\ solver_pc' = IF captcha_attempts < max_attempts
                    THEN (IF page_shows = "products" THEN "exit"
                          ELSE IF page_shows = "captcha" THEN "solving"
                          ELSE "sleep")
                    ELSE "exit"
    /\ UNCHANGED <<entry, max_attempts, captcha_attempts, page_shows,
                   solver_result>>
    /\ UNCHANGED <<scraperVars, sessionVars, restVars>>

UrlSolve ==
    /\ entry = "solve_captcha_on_url"
    /\ solver_pc = "solving"
    /\ \E o \in {"solved", "failed", "raise"} :
         IF o = "raise"
         THEN /\ SolverReturn("false")
              /\ UNCHANGED captcha_attempts
         ELSE /\ captcha_attempts' = captcha_attempts + 1
              /\ solver_pc' = IF o = "solved" THEN "solved" ELSE "sleep"
              /\ UNCHANGED solver_result
    /\ UNCHANGED <<entry, max_attempts, page_shows>>
    /\ UNCHANGED <<scraperVars, sessionVars, restVars>>

UrlAfterSolved ==
    /\ entry = "solve_captcha_on_url"
    /\ solver_pc = "solved"
    /\ solver_pc' = IF page_shows = "products" THEN "exit" ELSE "sleep"
    /\ UNCHANGED <<entry, max_attempts, captcha_attempts, page_shows,
                   solver_result>>
    /\ UNCHANGED <<scraperVars, sessionVars, restVars>>

UrlSleep ==
    /\ entry = "solve_captcha_on_url"
    /\ solver_pc = "sleep"
    /\ solver_pc' = "loop_head"
    /\ UNCHANGED <<entry, max_attempts, captcha_attempts, page_shows,
                   solver_result>>
    /\ UNCHANGED <<scraperVars, sessionVars, restVars>>

UrlExit ==
    /\ entry = "solve_captcha_on_url"
    /\ solver_pc = "exit"
    /\ SolverReturn(IF captcha_attempts < max_attempts
                       \/ page_shows = "products"
                    THEN "true" ELSE "false")
    /\ UNCHANGED <<entry, max_attempts, captcha_attempts, page_shows>>
    /\ UNCHANGED <<scraperVars, sessionVars, restVars>>

(***************************************************************************)
(* detect_and_solve_captcha: no challenge on the page is a success; else   *)
(* solve_slide_captcha, which on failure goes on to                        *)
(* retry_slide_captcha_improved and that to final_slide_attempt; when the  *)
(* chain has returned False, solve_captcha_with_max_distance.  A strategy  *)
(* that finds no slider or raises makes its chain return False at once.    *)
(***************************************************************************)
NextStrategy(strategy, o) ==
    CASE o = "aborted" -> "max_distance"
      [] strategy = "slide" -> "improved"
      [] strategy = "improved" -> "final"
      [] OTHER -> "max_distance"

ChainDetect ==
    /\ entry = "detect_and_solve_captcha"
    /\ solver_pc = "start"
    /\ \E raises \in BOOLEAN :
         IF raises THEN SolverReturn("false")
         ELSE IF page_shows # "captcha" THEN SolverReturn("true")
         ELSE /\ solver_pc' = Strategies[1]
              /\ UNCHANGED solver_result
    /\ UNCHANGED <<entry, max_attempts, captcha_attempts, page_shows>>
    /\ UNCHANGED <<scraperVars, sessionVars, restVars>>

ChainStrategy ==
    /\ entry = "detect_and_solve_captcha"
    /\ solver_pc \in {Strategies[k] : k \in 1..Len(Strategies)}
    /\ captcha_attempts' = captcha_attempts + 1
    /\ \E o \in {"solved", "failed", "aborted"} :
         IF o = "solved" THEN SolverReturn("true")
         ELSE IF solver_pc = "max_distance" THEN SolverReturn("false")
         ELSE /\ solver_pc' = NextStrategy(solver_pc, o)
              /\ UNCHANGED solver_result
    /\ UNCHANGED <<entry, max_attempts, page_shows>>
    /\ UNCHANGED <<scraperVars, sessionVars, restVars>>

(***************************************************************************)
(* _solve_captcha_challenge: for attempt in range(max_attempts); a page    *)
(* without the challenge is a success, before the slide and after it.      *)
(***************************************************************************)
ChallengeForTestNoPrecheck ==
    /\ entry = "_solve_captcha_challenge"
    /\ solver_pc \in {"start", "for_head"}
    /\ IF captcha_attempts < max_attempts
       THEN /\ solver_pc' = "slide"
            /\ UNCHANGED solver_result
       ELSE SolverReturn("false")
    /\ UNCHANGED <<entry, max_attempts, captcha_attempts, page_shows>>
    /\ UNCHANGED <<scraperVars, sessionVars, restVars>>

ChallengeForTest ==
    /\ entry = "_solve_captcha_challenge"
    /\ solver_pc \in {"start", "for_head"}
    /\ IF captcha_attempts < max_attempts
       THEN IF page_shows # "captcha" THEN SolverReturn("true")
            ELSE /\ solver_pc' = "slide"
                 /\ UNCHANGED solver_result
       ELSE SolverReturn("false")
    /\ UNCHANGED <<entry, max_attempts, captcha_attempts, page_shows>>
    /\ UNCHANGED <<scraperVars, sessionVars, restVars>>

ChallengeSlide ==
    /\ entry = "_solve_captcha_challenge"
    /\ solver_pc = "slide"
    /\ \E o \in {"moved", "no_slider", "raise"} :
         IF o = "raise"
         THEN /\ SolverReturn("false")
              /\ UNCHANGED captcha_attempts
         ELSE /\ captcha_attempts' = captcha_attempts + 1
              /\ solver_pc' = IF o = "moved" THEN "verify" ELSE "for_head"
              /\ UNCHANGED solver_result
    /\ UNCHANGED <<entry, max_attempts, page_shows>>
    /\ UNCHANGED <<scraperVars, sessionVars, restVars>>

ChallengeVerify ==
    /\ entry = "_solve_captcha_challenge"
    /\ solver_pc = "verify"
    /\ IF page_shows # "captcha" THEN SolverReturn("true")
       ELSE /\ solver_pc' = "for_head"
            /\ UNCHANGED solver_result
    /\ UNCHANGED <<entry, max_attempts, captcha_attempts, page_shows>>
    /\ UNCHANGED <<scraperVars, sessionVars, restVars>>

(***************************************************************************)
(* One entry point is called, with an attempt limit where it takes one.    *)
(***************************************************************************)
AttemptLimit(e) == IF e = "detect_and_solve_captcha" THEN Len(Strategies)
                   ELSE max_attempts

SolverInit ==
    /\ entry \in Entries
    /\ max_attempts \in 0..MaxAttemptsCfg
    /\ entry = "detect_and_solve_captcha" => max_attempts = 0
    /\ solver_pc = "start"
    /\ captcha_attempts = 0
    /\ page_shows \in PageStates
    /\ solver_result = "pending"
    /\ ScraperIdle
    /\ SessionIdle
    /\ RestIdle

SolverStep ==
    \/ UrlGoto
    \/ UrlLoopTest
    \/ UrlSolve
    \/ UrlAfterSolved
    \/ UrlSleep
    \/ UrlExit
    \/ ChainDetect
    \/ ChainStrategy
    \/ ChallengeForTest
    \/ ChallengeSlide
    \/ ChallengeVerify

SolverNext ==
    \/ PageChanges
    \/ UrlGoto
    \/ UrlLoopTest
    \/ UrlSolve
    \/ UrlAfterSolved
    \/ UrlSleep
    \/ UrlExit
    \/ ChainDetect
    \/ ChainStrategy
    \/ ChallengeForTest
    \/ ChallengeSlide
    \/ ChallengeVerify

(***************************************************************************)
(* The coroutine that runs the solver is always scheduled again.           *)
(***************************************************************************)
SolverSpec == SolverInit /\ [][SolverNext]_vars /\ WF_vars(SolverStep)

(***************************************************************************)
(*              Session cache of the cookie generators, and the            *)
(*                   cookies file of the scraper                           *)
(*                                                                         *)
(* generator is the class whose methods are called: CookieGenerator        *)
(* (src/cookie_generator.py), AsyncCookieGenerator (utils/async_cookie_    *)
(* generator.py) or StoreCredentialsNetworkScraper (its cookies file).     *)
(* A cookie string is the sequence of its pieces: name, "=", value, and    *)
(* "; " between two cookies.                                               *)
(***************************************************************************)
MaxTicks == 4
MaxValidityMinutes == 1
StartTime == 1000
SecondsPerMinute == 60
MaxMissingEssential == 2

TickSteps == {1, 58}

Generators == {"CookieGenerator", "AsyncCookieGenerator"}

EssentialCookies(g) ==
    IF g = "AsyncCookieGenerator"
    THEN <<"aep_usuc_f", "_gcl_au", "ali_apache_id", "aep_common_f">>
    ELSE <<"_m_h5_tk", "_m_h5_tk_enc">>

CookieUniverse ==
    <<"aep_usuc_f", "_gcl_au", "ali_apache_id", "aep_common_f", "_m_h5_tk",
      "_m_h5_tk_enc", "xman_t">>

Range(f) == {f[x] : x \in DOMAIN f}

(***************************************************************************)
(* _extract_cookies_from_context: "; ".join of name=value.                 *)
(***************************************************************************)
RECURSIVE JoinCookies(_)
JoinCookies(names) ==
    IF names = <<>> THEN <<>>
    ELSE IF Len(names) = 1 THEN <<names[1], "=", "v">>
    ELSE <<names[1], "=", "v", "; ">> \o JoinCookies(Tail(names))

ExtractCookiesFromContext(jar) ==
    JoinCookies(SelectSeq(CookieUniverse, LAMBDA n : n \in jar))

(***************************************************************************)
(* cookie_string.split("; ") and split("=", 1) of CookieGenerator.         *)
(* validate_cookies: the keys of the parsed cookies.                       *)
(***************************************************************************)
RECURSIVE SplitCookies(_, _)
SplitCookies(cookies, current) ==
    IF cookies = <<>> THEN <<current>>
    ELSE IF Head(cookies) = "; "
         THEN <<current>> \o SplitCookies(Tail(cookies), <<>>)
         ELSE SplitCookies(Tail(cookies), Append(current, Head(cookies)))

ParsedKeys(cookies) ==
    {c[1] : c \in {d \in Range(SplitCookies(cookies, <<>>)) :
                      Len(d) >= 2 /\ d[2] = "="}}

(***************************************************************************)
(* validate_cookies.  AsyncCookieGenerator looks for the text "name=" in   *)
(* the string and accepts up to two missing names; CookieGenerator parses  *)
(* the string and accepts no missing name.                                 *)
(***************************************************************************)
MissingEssential(g, cookies) ==
    IF g = "AsyncCookieGenerator"
    THEN {n \in Range(EssentialCookies(g)) : ~Contains(cookies, <<n, "=">>)}
    ELSE {n \in Range(EssentialCookies(g)) : n \notin ParsedKeys(cookies)}

ValidateCookies(g, cookies) ==
    IF g = "AsyncCookieGenerator"
    THEN cookies # <<>>
         /\ Cardinality(MissingEssential(g, cookies)) <= MaxMissingEssential
    ELSE Cardinality(MissingEssential(g, cookies)) = 0

(***************************************************************************)
(* The dictionary validate_cookies returns: the names are put on one of    *)
(* the two lists in the order of the essential names (CookieGenerator      *)
(* calls the list of the names it found found_essential).                  *)
(***************************************************************************)
ValidationResult(g, cookies) ==
    [valid |-> ValidateCookies(g, cookies),
     missing_essential |->
         SelectSeq(EssentialCookies(g),
                   LAMBDA n : n \in MissingEssential(g, cookies)),
     present_essential |->
         SelectSeq(EssentialCookies(g),
                   LAMBDA n : n \notin MissingEssential(g, cookies))]

(***************************************************************************)
(* Contents of the file.  A dict has a timestamp key or not, with a number *)
(* or something else under it, and a cookie string.                        *)
(***************************************************************************)
Dict(has_timestamp, numeric, timestamp, cookies) ==
    [kind |-> "dict", has_timestamp |-> has_timestamp, numeric |-> numeric,
     timestamp |-> timestamp, cookies |-> cookies]

BrokenFiles ==
    {[kind |-> "absent"], [kind |-> "unreadable"], [kind |-> "not_json"],
     [kind |-> "list"],
     Dict(TRUE, FALSE, 0, <<>>), Dict(FALSE, FALSE, 0, <<>>)}

(***************************************************************************)
(* cache_data.get("timestamp", 0).                                         *)
(***************************************************************************)
GetTimestamp(d) == IF d.has_timestamp THEN d.timestamp ELSE 0

(***************************************************************************)
(* What reading the file raises: open() on a file that cannot be read,     *)
(* json.load on text that is not JSON, .get on a list, the subtraction of  *)
(* a timestamp that is not a number.                                       *)
(***************************************************************************)
ReadError(file) ==
    CASE file.kind = "unreadable" -> "OSError"
      [] file.kind = "not_json" -> "JSONDecodeError"
      [] file.kind = "list" -> "AttributeError"
      [] file.kind = "dict" /\ file.has_timestamp /\ ~file.numeric -> "TypeError"
      [] OTHER -> "none"

(***************************************************************************)
(* The except clauses of the loaders.                                      *)
(***************************************************************************)
Catches(g, error) ==
    IF g \in Generators THEN error \in {"JSONDecodeError", "KeyError"}
    ELSE TRUE

(***************************************************************************)
(* _load_cached_session of the two generators: the session, None, or the   *)
(* exception that escapes.                                                 *)
(***************************************************************************)
LoadCachedSession(g, file, t) ==
    IF file.kind = "absent" THEN [returns |-> NoSession, raised |-> FALSE]
    ELSE IF ReadError(file) # "none"
         THEN [returns |-> NoSession, raised |-> ~Catches(g, ReadError(file))]
    ELSE IF t - GetTimestamp(file) < cache_validity_seconds
         THEN [returns |-> file, raised |-> FALSE]
    ELSE [returns |-> NoSession, raised |-> FALSE]

(***************************************************************************)
(* The expires field of a cookie in the cookies file: absent, a JSON       *)
(* number (counted in halves, so that 2003 halves is 1001.5), a string     *)
(* holding such a number, a string that holds no number, or NaN.           *)
(***************************************************************************)
NoExpiry == -1

ExpiresField(type, halves) == [type |-> type, halves |-> halves]

ExpiresValues ==
    {ExpiresField("absent", 0), ExpiresField("bad_str", 0),
     ExpiresField("nan", 0), ExpiresField("number", 2 * NoExpiry),
     ExpiresField("number", 2 * NoExpiry - 1), ExpiresField("number", 2),
     ExpiresField("number", 2 * (StartTime + 1)),
     ExpiresField("number", 2 * (StartTime + 1) + 1),
     ExpiresField("str", 2 * (StartTime + 1))}

(***************************************************************************)
(* int(x) of a number given in halves: the fraction is dropped, towards    *)
(* zero.                                                                   *)
(***************************************************************************)
IntOfHalves(h) == IF h >= 0 THEN h \div 2 ELSE -((-h) \div 2)

(***************************************************************************)
(* expires_value = cookie.get("expires", -1) and its conversion.  int() of *)
(* NaN raises ValueError outside the inner try.                            *)
(***************************************************************************)
ExpiresOf(v) ==
    CASE v.type = "number" -> IntOfHalves(v.halves)
      [] v.type = "str" -> IntOfHalves(v.halves)
      [] OTHER -> NoExpiry

ExpiresRaises(v) == v.type = "nan"

CookieFiles ==
    {[kind |-> "cookie_file", expires |-> e] :
        e \in UNION {[1..n -> ExpiresValues] : n \in 0..2}}

(***************************************************************************)
(* _load_cookies of the scraper: the cookies of the file that have not     *)
(* expired, None when there is none, when the file is not a cookies file   *)
(* or when an exception is caught.                                         *)
(***************************************************************************)
KeepsCookie(v, current_time) ==
    ExpiresOf(v) = NoExpiry \/ ExpiresOf(v) > current_time

LoadCookies(file, t) ==
    IF file.kind = "cookie_file"
    THEN LET valid_cookies ==
                 SelectSeq(file.expires, LAMBDA v : KeepsCookie(v, t))
         IN  [returns |-> IF \E k \in DOMAIN file.expires :
                                  ExpiresRaises(file.expires[k])
                          THEN NoSession
                          ELSE IF valid_cookies = <<>> THEN NoSession
                          ELSE [kind |-> "cookies", expires |-> valid_cookies],
              raised |-> FALSE]
    ELSE [returns |-> NoSession,
          raised |-> ~Catches("StoreCredentialsNetworkScraper",
                              ReadError(file))]

(***************************************************************************)
(* is_session_expired on a session in memory.                              *)
(***************************************************************************)
IsSessionExpiredLate(g, session, t) ==
    \/ t - GetTimestamp(session) > cache_validity_seconds
    \/ ~ValidateCookies(g, session.cookies)

IsSessionExpired(g, session, t) ==
    \/ t - GetTimestamp(session) >= cache_validity_seconds
    \/ ~ValidateCookies(g, session.cookies)

(***************************************************************************)
(* The clock; op and outcome tell of the last call since it moved.         *)
(***************************************************************************)
Tick ==
    /\ generator # "none"
    /\ ticks < MaxTicks
    /\ ticks' = ticks + 1
    /\ \E d \in TickSteps : now' = now + d
    /\ op' = "tick"
    /\ outcome' = "none"
    /\ UNCHANGED <<generator, cache_validity_seconds, cache_file,
                   session_data>>
    /\ UNCHANGED <<scraperVars, solverVars, restVars>>

(***************************************************************************)
(* The cookies a page may yield: any of the names the generator looks for, *)
(* and one it does not look for.                                           *)
(***************************************************************************)
CookieJars(g) == SUBSET (Range(EssentialCookies(g)) \cup {"xman_t"})

(***************************************************************************)
(* generate_fresh_cookies, called when no session is at hand: whatever     *)
(* cookies the page yields are put in the                                  *)
(* session, which is written to the cache file (a failed write is only     *)
(* printed); an exception on the way gives a session that is not saved.    *)
(***************************************************************************)
GenerateFreshCookies ==
    /\ generator \in Generators
    /\ session_data = NoSession
    /\ \E jar \in CookieJars(generator),
          o \in {"saved", "unsaved", "failed"} :
         LET session == Dict(TRUE, TRUE, now,
                             IF o = "failed" THEN <<>>
                             ELSE ExtractCookiesFromContext(jar))
         IN  /\ session_data' = session
             /\ cache_file' = IF o = "saved" THEN session ELSE cache_file
             /\ outcome' = o
    /\ op' = "generate_fresh_cookies"
    /\ UNCHANGED <<generator, cache_validity_seconds, now, ticks>>
    /\ UNCHANGED <<scraperVars, solverVars, restVars>>

(***************************************************************************)
(* A call of the loader.                                                   *)
(***************************************************************************)
Load ==
    /\ generator # "none"
    /\ LET r == IF generator \in Generators
                THEN LoadCachedSession(generator, cache_file, now)
                ELSE LoadCookies(cache_file, now)
       IN  /\ session_data' = IF r.raised THEN session_data ELSE r.returns
           /\ outcome' = IF r.raised THEN "raised"
                         ELSE IF r.returns = NoSession THEN "none"
                         ELSE "session"
    /\ op' = "load"
    /\ UNCHANGED <<generator, cache_validity_seconds, now, ticks, cache_file>>
    /\ UNCHANGED <<scraperVars, solverVars, restVars>>

(***************************************************************************)
(* A call of is_session_expired on the session in memory.                  *)
(***************************************************************************)
CheckExpired ==
    /\ generator \in Generators
    /\ session_data # NoSession
    /\ outcome' = IF IsSessionExpired(generator, session_data, now)
                  THEN "true" ELSE "false"
    /\ op' = "is_session_expired"
    /\ UNCHANGED <<generator, cache_validity_seconds, now, ticks, cache_file,
                   session_data>>
    /\ UNCHANGED <<scraperVars, solverVars, restVars>>

SessionInit ==
    /\ generator \in Generators \cup {"StoreCredentialsNetworkScraper"}
    /\ \E m \in 1..MaxValidityMinutes :
         cache_validity_seconds = m * SecondsPerMinute
    /\ now = StartTime
    /\ ticks = 0
    /\ cache_file \in BrokenFiles
                        \cup (IF generator \in Generators THEN {}
                              ELSE CookieFiles)
    /\ session_data = NoSession
    /\ op = "init"
    /\ outcome = "none"
    /\ ScraperIdle
    /\ SolverIdle
    /\ RestIdle

SessionNext ==
    \/ Tick
    \/ GenerateFreshCookies
    \/ Load
    \/ CheckExpired

SessionSpec == SessionInit /\ [][SessionNext]_vars

(***************************************************************************)
(*                     A save of the session to its file                   *)
(*                                                                         *)
(* _save_session_cache of the two generators and _save_cookies of the      *)
(* scraper open the file with mode "w" and json.dump the data into it.     *)
(* The text of a file is the sequence of the pieces json.dump hands to     *)
(* the file one after the other; cookies are told apart by their number.   *)
(***************************************************************************)
MaxSaves == 2
MaxSavedCookies == 2

Savers == Generators \cup {"StoreCredentialsNetworkScraper"}

SaveTimes == {StartTime, StartTime + 1}

Piece(key, value) == [key |-> key, value |-> value]

JsonDump(s, timestamp, cookies) ==
    IF s = "StoreCredentialsNetworkScraper"
    THEN <<Piece("{", 0), Piece("saved_at", timestamp),
           Piece("timestamp", timestamp), Piece("cookies", cookies),
           Piece("user_agent", 0), Piece("proxy_used", 0), Piece("}", 0)>>
    ELSE <<Piece("{", 0), Piece("timestamp", timestamp),
           Piece("cookies", cookies), Piece("user_agent", 0),
           Piece("base_url", 0), Piece("}", 0)>>

SavedFiles(s) ==
    {JsonDump(s, t, n) : t \in SaveTimes, n \in 1..MaxSavedCookies}

(***************************************************************************)
(* The call: _save_cookies returns at once when there are no cookies;      *)
(* otherwise open(..., "w") either raises (the except clause reports it    *)
(* and the call returns) or leaves the file empty and ready for writing.   *)
(***************************************************************************)
SaveCalled ==
    /\ save_pc \in {"called", "returned", "skipped"}
    /\ saves < MaxSaves
    /\ saves' = saves + 1
    /\ \E t \in SaveTimes, n \in 0..MaxSavedCookies, opened \in BOOLEAN :
         IF saver = "StoreCredentialsNetworkScraper" /\ n = 0
         THEN /\ save_pc' = "skipped"
              /\ UNCHANGED <<file_text, old_text, new_text>>
         ELSE /\ old_text' = file_text
              /\ new_text' = JsonDump(saver, t, n)
              /\ file_text' = IF opened THEN <<>> ELSE file_text
              /\ save_pc' = IF opened THEN "writing" ELSE "returned"
    /\ UNCHANGED saver
    /\ UNCHANGED notSaveVars

(***************************************************************************)
(* json.dump: the next piece reaches the file.                             *)
(***************************************************************************)
SaveWrite ==
    /\ save_pc = "writing"
    /\ Len(file_text) < Len(new_text)
    /\ file_text' = Append(file_text, new_text[Len(file_text) + 1])
    /\ UNCHANGED <<saver, save_pc, old_text, new_text, saves>>
    /\ UNCHANGED notSaveVars

(***************************************************************************)
(* The end of the with block, everything written.                          *)
(***************************************************************************)
SaveClose ==
    /\ save_pc = "writing"
    /\ file_text = new_text
    /\ save_pc' = "returned"
    /\ UNCHANGED <<saver, file_text, old_text, new_text, saves>>
    /\ UNCHANGED notSaveVars

(***************************************************************************)
(* A write raises (no space left, say): the file is closed as it is and    *)
(* the except clause reports the failure.                                  *)
(***************************************************************************)
SaveWriteRaises ==
    /\ save_pc = "writing"
    /\ file_text # new_text
    /\ save_pc' = "returned"
    /\ UNCHANGED <<saver, file_text, old_text, new_text, saves>>
    /\ UNCHANGED notSaveVars

(***************************************************************************)
(* The process is ended while the file is open.                            *)
(***************************************************************************)
SaveKilled ==
    /\ save_pc = "writing"
    /\ save_pc' = "killed"
    /\ UNCHANGED <<saver, file_text, old_text, new_text, saves>>
    /\ UNCHANGED notSaveVars

SaveInit ==
    /\ saver \in Savers
    /\ save_pc = "called"
    /\ file_text \in {<<>>} \cup SavedFiles(saver)
    /\ old_text = file_text
    /\ new_text = file_text
    /\ saves = 0
    /\ ScraperIdle
    /\ SolverIdle
    /\ SessionIdle
    /\ ClientIdle
    /\ ExtractIdle
    /\ LoopIdle
    /\ ContextIdle
    /\ BatchIdle
    /\ HelperIdle
    /\ EnhIdle

SaveNext ==
    \/ SaveCalled
    \/ SaveWrite
    \/ SaveClose
    \/ SaveWriteRaises
    \/ SaveKilled

SaveSpec == SaveInit /\ [][SaveNext]_vars

(***************************************************************************)
(*                AliExpressClient: signature and call_api                 *)
(*                                                                         *)
(* A string is the sequence of its pieces.  The pieces of a cookie string  *)
(* are names, values, "=", "_" and "; "; an argument of generate_signature *)
(* is a string over the characters "a" and "&".                            *)
(***************************************************************************)
MaxArgLen == 1

None == [kind |-> "None"]

Some(value) == [kind |-> "value", value |-> value]

(***************************************************************************)
(* _md5_hash: the digest stands for the text it was made of.               *)
(***************************************************************************)
Md5Hash(text) == [md5 |-> text]

(***************************************************************************)
(* _generate_signature: f"{token}&{timestamp}&{app_key}&{data}".           *)
(***************************************************************************)
SignatureStringKeyFirst(token, timestamp, app_key, data) ==
    token \o <<"&">> \o app_key \o <<"&">> \o timestamp \o <<"&">> \o data

SignatureString(token, timestamp, app_key, data) ==
    token \o <<"&">> \o timestamp \o <<"&">> \o app_key \o <<"&">> \o data

GenerateSignature(token, timestamp, app_key, data) ==
    Md5Hash(SignatureString(token, timestamp, app_key, data))

(***************************************************************************)
(* _extract_token_from_cookie: split("; "), then split("=", 1) of every    *)
(* part that has a "=", the later of two equal keys wins; ValueError when  *)
(* there is no _m_h5_tk key; the token is the value up to its first "_".   *)
(***************************************************************************)
IndexOf(s, piece) ==
    IF \E k \in DOMAIN s : s[k] = piece
    THEN CHOOSE k \in DOMAIN s : s[k] = piece /\ \A j \in 1..(k - 1) : s[j] # piece
    ELSE 0

ExtractTokenFromCookie(cookie_string) ==
    LET parts == SplitCookies(cookie_string, <<>>)
        pairs == SelectSeq(parts, LAMBDA c : IndexOf(c, "=") > 0)
        key(c) == SubSeq(c, 1, IndexOf(c, "=") - 1)
        value(c) == SubSeq(c, IndexOf(c, "=") + 1, Len(c))
        found == SelectSeq(pairs, LAMBDA c : key(c) = <<"_m_h5_tk">>)
        h5_token == value(found[Len(found)])
    IN  IF found = <<>>
        THEN [raised |-> TRUE, token |-> <<>>, cookie_timestamp |-> None]
        ELSE IF IndexOf(h5_token, "_") > 0
        THEN [raised |-> FALSE,
              token |-> SubSeq(h5_token, 1, IndexOf(h5_token, "_") - 1),
              cookie_timestamp |->
                  Some(SubSeq(h5_token, IndexOf(h5_token, "_") + 1,
                              Len(h5_token)))]
        ELSE [raised |-> FALSE, token |-> h5_token,
              cookie_timestamp |-> None]

(***************************************************************************)
(* The body of a response: JSONP around a JSON object with a ret array (or *)
(* without one), JSONP around an empty object, or text that is not JSONP.  *)
(* An entry of ret is a string such as "SUCCESS::ok".                      *)
(***************************************************************************)
RetArrays ==
    {<<>>, <<<<"SUCCESS", "::", "ok">>>>, <<<<"FAIL_SYS_TOKEN_EXOIRED">>>>,
     <<<<"FAIL_SYS_TOKEN_EXOIRED">>, <<"SUCCESS", "::", "ok">>>>}

Bodies ==
    {[kind |-> "jsonp", has_ret |-> TRUE, ret |-> r] : r \in RetArrays}
        \cup {[kind |-> "jsonp", has_ret |-> FALSE, ret |-> <<>>],
              [kind |-> "jsonp_empty_object", has_ret |-> FALSE, ret |-> <<>>],
              [kind |-> "not_jsonp", has_ret |-> FALSE, ret |-> <<>>]}

ParseJsonpResponse(body) == IF body.kind = "not_jsonp" THEN None ELSE Some(body)

RetHasSuccess(ret_codes) ==
    \E k \in DOMAIN ret_codes : Contains(ret_codes[k], <<"SUCCESS">>)

(***************************************************************************)
(* What the clock and the network do during a call: the time stamp, and    *)
(* either an exception of session.get or a response.                       *)
(***************************************************************************)
TransportErrors == {"ConnectionError", "Timeout"}

StatusCodes == {200, 404, 500}

Environments ==
    {[kind |-> "exception", timestamp |-> t, error |-> e, status_code |-> 0,
      body |-> [kind |-> "not_jsonp", has_ret |-> FALSE, ret |-> <<>>]] :
        t \in {<<"1">>, <<"2">>}, e \in TransportErrors}
    \cup {[kind |-> "response", timestamp |-> t, error |-> "none",
           status_code |-> c, body |-> b] :
            t \in {<<"1">>, <<"2">>}, c \in StatusCodes, b \in Bodies}

(***************************************************************************)
(* The dictionary of the except clause of call_api.                        *)
(***************************************************************************)
ExceptionResult(api, e) ==
    [status_code |-> 0, success |-> FALSE, data |-> None, error |-> Some(e),
     signature |-> None, api |-> api, timestamp |-> None]

(***************************************************************************)
(* call_api.                                                               *)
(***************************************************************************)
CallApiResult(args, env) ==
    LET auth_data == ExtractTokenFromCookie(args.cookie_string)
        signature == GenerateSignature(auth_data.token, env.timestamp,
                                       args.app_key, args.data)
        api_result == [status_code |-> env.status_code, success |-> FALSE,
                       data |-> None, error |-> None,
                       signature |-> Some(signature), api |-> args.api,
                       timestamp |-> Some(env.timestamp)]
        parsed_data == ParseJsonpResponse(env.body)
    IN  IF auth_data.raised
        THEN ExceptionResult(args.api, "Missing _m_h5_tk cookie")
        ELSE IF env.kind = "exception"
        THEN ExceptionResult(args.api, env.error)
        ELSE IF env.status_code # 200
        THEN [api_result EXCEPT !.error = Some("HTTP")]
        ELSE IF parsed_data = None \/ env.body.kind = "jsonp_empty_object"
        THEN [api_result EXCEPT !.error = Some("Failed to parse JSONP response")]
        ELSE IF RetHasSuccess(env.body.ret)
        THEN [api_result EXCEPT !.data = parsed_data, !.success = TRUE]
        ELSE [api_result EXCEPT !.data = parsed_data, !.error = Some("API error")]

RequestSent(args, env) == ~ExtractTokenFromCookie(args.cookie_string).raised

(***************************************************************************)
(* The arguments of the two calls.                                         *)
(***************************************************************************)
Strings == UNION {[1..n -> {"a", "&"}] : n \in 0..MaxArgLen}

SignatureArgs ==
    [token : Strings, timestamp : Strings, app_key : Strings, data : Strings]

ClientCookieStrings ==
    {<<>>, <<"x", "=", "y">>, <<"_m_h5_tk_enc", "=", "b">>,
     <<"_m_h5_tk", "=">>, <<"_m_h5_tk", "=", "a">>,
     <<"_m_h5_tk", "=", "a", "_", "1">>,
     <<"x", "=", "y", "; ", "_m_h5_tk", "=", "a", "_", "1">>}

CallApiArgs ==
    [cookie_string : ClientCookieStrings, api : {"mtop.aliexpress.pdp.pc.query"},
     data : {<<"{", "}">>}, app_key : {<<"12574478">>}]

(***************************************************************************)
(* A call of generate_signature, and a call of call_api.                   *)
(***************************************************************************)
CallGenerateSignature ==
    /\ client_call = "generate_signature"
    /\ client_ret = None
    /\ client_ret' = Some(GenerateSignature(client_args.token,
                                            client_args.timestamp,
                                            client_args.app_key,
                                            client_args.data))
    /\ UNCHANGED <<client_call, client_args, client_env, requests>>
    /\ UNCHANGED notClientVars

CallApi ==
    /\ client_call = "call_api"
    /\ client_ret = None
    /\ client_ret' = Some(CallApiResult(client_args, client_env))
    /\ requests' = IF RequestSent(client_args, client_env)
                   THEN requests + 1 ELSE requests
    /\ UNCHANGED <<client_call, client_args, client_env>>
    /\ UNCHANGED notClientVars

ClientInit ==
    /\ client_call \in {"generate_signature", "call_api"}
    /\ client_args \in IF client_call = "call_api" THEN CallApiArgs
                       ELSE SignatureArgs
    /\ client_env \in Environments
    /\ client_ret = None
    /\ requests = 0
    /\ ScraperIdle
    /\ SolverIdle
    /\ SessionIdle
    /\ SaveIdle
    /\ ExtractIdle
    /\ LoopIdle
    /\ ContextIdle
    /\ BatchIdle
    /\ HelperIdle
    /\ EnhIdle

ClientNext ==
    \/ CallGenerateSignature
    \/ CallApi

ClientSpec == ClientInit /\ [][ClientNext]_vars

(***************************************************************************)
(* What each strategy of AdvancedCaptchaSolver does to the slider:         *)
(* solve_slide_captcha and solve_captcha_with_max_distance drag it with    *)
(* page.mouse (the latter over a longer distance);                         *)
(* retry_slide_captcha_improved and final_slide_attempt set                *)
(* slider.style.left in the page and dispatch mousedown / mouseup events.  *)
(***************************************************************************)
Technique(strategy) ==
    CASE strategy \in {"slide", "max_distance"} -> "pointer_drag"
      [] strategy \in {"improved", "final"} -> "dom_style_mutation"
      [] OTHER -> "none"

(***************************************************************************)
(*          handle_response on a JSON body: extraction of images           *)
(*                                                                         *)
(* A JSON value is a string (known by its length, whether it starts with   *)
(* "data:image/" and whether it is made of base64 characters only), a      *)
(* number, null, a list or an object with its keys in order.  A JSON path  *)
(* is the sequence of its pieces: keys, "." and "[0]", "[1]".              *)
(***************************************************************************)
MaxItems == 2

Str(len, data_url, base64) ==
    [type |-> "str", len |-> len, data_url |-> data_url, base64 |-> base64]

Number == [type |-> "number"]

Null == [type |-> "null"]

ListOf(items) == [type |-> "list", keys |-> <<>>, items |-> items]

DictOf(keys, values) == [type |-> "dict", keys |-> keys, items |-> values]

Leaves ==
    {Str(5, FALSE, TRUE), Str(100, TRUE, FALSE), Str(500, FALSE, TRUE),
     Str(1001, FALSE, TRUE), Number, Null}

(***************************************************************************)
(* _is_base64_image of a string.                                           *)
(***************************************************************************)
MinImageLength == 100
MinBareBase64Length == 1000

IsBase64Image(text) ==
    IF text.len < MinImageLength THEN FALSE
    ELSE IF text.data_url THEN TRUE
    ELSE text.base64 /\ text.len > MinBareBase64Length

(***************************************************************************)
(* find_base64_images: objects and lists are walked in order; any other    *)
(* value goes to _is_base64_image, whose len(text) raises TypeError for a  *)
(* value that is not a string, which ends the walk.  acc holds the table   *)
(* and whether the walk has raised.                                        *)
(***************************************************************************)
IndexPiece(k) == <<"[0]", "[1]", "[2]">>[k]

PutImage(table, e) == {x \in table : x.key # e.key} \cup {e}

ChildPath(obj, path, k) ==
    IF obj.type = "list" THEN path \o <<IndexPiece(k)>>
    ELSE IF path = <<>> THEN <<obj.keys[k]>>
    ELSE path \o <<".", obj.keys[k]>>

RECURSIVE FindBase64Images(_, _, _)
RECURSIVE FindInItems(_, _, _, _)
FindInItems(obj, path, k, acc) ==
    IF acc.raised \/ k > Len(obj.items) THEN acc
    ELSE FindInItems(obj, path, k + 1,
                     FindBase64Images(obj.items[k], ChildPath(obj, path, k),
                                      acc))

FindBase64Images(obj, path, acc) ==
    IF obj.type \in {"dict", "list"} THEN FindInItems(obj, path, 1, acc)
    ELSE IF obj.type # "str" THEN [acc EXCEPT !.raised = TRUE]
    ELSE IF IsBase64Image(obj)
    THEN [acc EXCEPT !.table =
              PutImage(@, [key |-> path, json_path |-> path,
                           base64_data |-> obj])]
    ELSE acc

(***************************************************************************)
(* dict.get(key) and obj[key]; Null stands for a missing key as well.      *)
(***************************************************************************)
Get(obj, key) ==
    IF obj.type = "dict" /\ \E k \in DOMAIN obj.keys : obj.keys[k] = key
    THEN obj.items[CHOOSE k \in DOMAIN obj.keys : obj.keys[k] = key]
    ELSE Null

CredentialPath == <<"data", ".", "data", ".", "url">>

MinCredentialLength == 100

(***************************************************************************)
(* _is_credential_data_response: the url or the api field names the        *)
(* credential API and data.data.url is a string of more than 100           *)
(* characters; any exception on the way gives False.                       *)
(***************************************************************************)
IsCredentialDataResponse(obj, names_api) ==
    LET url_data == Get(Get(Get(obj, "data"), "data"), "url")
    IN  /\ names_api
        /\ url_data.type = "str"
        /\ url_data.len > MinCredentialLength

(***************************************************************************)
(* _extract_credential_data: the image under data.data.url goes into the   *)
(* table under the key "certificate".                                      *)
(***************************************************************************)
ExtractCredentialData(table, obj) ==
    LET base64_data_raw == Get(Get(Get(obj, "data"), "data"), "url")
    IN  IF base64_data_raw.type = "str"
           /\ base64_data_raw.len > MinCredentialLength
        THEN PutImage(table, [key |-> <<"certificate">>,
                              json_path |-> CredentialPath,
                              base64_data |-> base64_data_raw])
        ELSE table

(***************************************************************************)
(* The bodies: objects of one or two entries that are leaves, lists of     *)
(* leaves or objects of leaves, and bodies of the credential API's shape,  *)
(* with or without an entry before "data".                                 *)
(***************************************************************************)
Keys(n) == SubSeq(<<"a", "b", "c">>, 1, n)

Tuples(S) == UNION {[1..n -> S] : n \in 1..MaxItems}

Containers(S) ==
    {ListOf(t) : t \in Tuples(S)}
        \cup {DictOf(Keys(Len(t)), t) : t \in Tuples(S)}

OneOrTwo(S) == [1..1 -> S] \cup [1..2 -> S]

GenericBodies ==
    {DictOf(Keys(Len(t)), t) : t \in OneOrTwo(Leaves \cup Containers(Leaves))}

CredentialData(leaf) == DictOf(<<"data">>, <<DictOf(<<"url">>, <<leaf>>)>>)

CredentialBodies ==
    {DictOf(<<"data">>, <<CredentialData(l)>>) : l \in Leaves}
        \cup {DictOf(<<"v", "data">>, <<v, CredentialData(l)>>) :
                 v \in Leaves, l \in Leaves}

(***************************************************************************)
(* handle_response, JSON branch: the body is stored in the capture table   *)
(* before it is looked at.  The key is made of the store id and the type   *)
(* of the url; the entry holds the url and the body.                       *)
(***************************************************************************)
StoreIfCredentialData(table, obj, names_api) ==
    IF IsCredentialDataResponse(obj, names_api)
    THEN {[url |-> names_api, data |-> obj]}
    ELSE table

StoreApiResponse(table, obj, names_api) ==
    {e \in table : e.url # names_api} \cup {[url |-> names_api, data |-> obj]}

(***************************************************************************)
(* handle_response, JSON branch, after the body has arrived: the write to  *)
(* the capture table, the fast path when the body is a credential          *)
(* response, then the recursive scan; an exception of the scan is caught   *)
(* and logged.                                                             *)
(***************************************************************************)
HandleJsonResponse ==
    /\ handler_pc = "received"
    /\ capture_table' = StoreApiResponse(capture_table, json_data,
                                         credential_url)
    /\ LET fast == IF IsCredentialDataResponse(json_data, credential_url)
                   THEN ExtractCredentialData(image_table, json_data)
                   ELSE image_table
           scan == FindBase64Images(json_data, <<>>,
                                    [table |-> fast, raised |-> FALSE])
       IN  /\ image_table' = scan.table
           /\ handler_error' = scan.raised
    /\ handler_pc' = "done"
    /\ UNCHANGED <<json_data, credential_url>>
    /\ UNCHANGED notExtractVars

ExtractInit ==
    /\ json_data \in GenericBodies \cup CredentialBodies
    /\ credential_url \in BOOLEAN
    /\ handler_pc = "received"
    /\ image_table = {}
    /\ handler_error = FALSE
    /\ capture_table = {}
    /\ ScraperIdle
    /\ SolverIdle
    /\ SessionIdle
    /\ SaveIdle
    /\ ClientIdle
    /\ LoopIdle
    /\ ContextIdle
    /\ BatchIdle
    /\ HelperIdle
    /\ EnhIdle

ExtractNext == HandleJsonResponse

ExtractSpec == ExtractInit /\ [][ExtractNext]_vars

(***************************************************************************)
(*        _scrape_single_store and the response handlers on the            *)
(*                         asyncio event loop                              *)
(*                                                                         *)
(* One coroutine runs at a time; it gives up the loop only at an await.    *)
(* A program counter names the statement its coroutine executes next.      *)
(* The handlers are those of text (JSONP) responses of the credential API, *)
(* which write the capture-table entry, add parsed_jsonp to it, write the  *)
(* image entry and add image_format to it.                                 *)
(***************************************************************************)
MaxHandlers == 2

HandlerNames == <<"handler_1", "handler_2", "handler_3">>

Handlers == {HandlerNames[k] : k \in 1..MaxHandlers}

Absent == [state |-> "absent", writer |-> "none"]

Entry(state, writer) == [state |-> state, writer |-> writer]

(***************************************************************************)
(* The statements of _scrape_single_store that touch the tables, and the   *)
(* awaits between them, in program order.                                  *)
(***************************************************************************)
OrchestratorProgram ==
    <<"new_page", "clear_network", "clear_images", "setup_interception",
      "navigate_and_wait", "final_wait", "snapshot_network",
      "snapshot_images", "returned">>

HandlerProgram ==
    <<"await_body", "write_entry", "add_parsed_jsonp", "write_image",
      "add_image_format", "done">>

After(program, statement) ==
    program[(CHOOSE k \in DOMAIN program : program[k] = statement) + 1]

(***************************************************************************)
(* The statements that are awaits.                                         *)
(***************************************************************************)
OrchestratorAwaits ==
    {"new_page", "setup_interception", "navigate_and_wait", "final_wait"}

HandlerAwaitsMidWrite == {"await_body", "write_entry"}

HandlerAwaits == {"await_body"}

(***************************************************************************)
(* The loop hands itself to a coroutine that has not finished.             *)
(***************************************************************************)
Resume ==
    /\ running = "none"
    /\ \E c \in {"orchestrator"} \cup Handlers :
         /\ IF c = "orchestrator" THEN orch_pc # "returned"
            ELSE resp_pc[c] # "done"
         /\ running' = c
    /\ UNCHANGED <<orch_pc, resp_pc, net_entry, img_entry, snap>>
    /\ UNCHANGED notLoopVars

(***************************************************************************)
(* After a statement the coroutine keeps the loop, unless the statement    *)
(* was an await (which may suspend it) or its last.                        *)
(***************************************************************************)
Yields(statement, next, awaits) ==
    IF next \in {"returned", "done"} THEN {"none"}
    ELSE IF statement \in awaits THEN {"none", running}
    ELSE {running}

(***************************************************************************)
(* One statement of _scrape_single_store.                                  *)
(***************************************************************************)
OrchestratorStatement ==
    /\ running = "orchestrator"
    /\ orch_pc # "returned"
    /\ LET next == After(OrchestratorProgram, orch_pc)
       IN  /\ orch_pc' = next
           /\ running' \in Yields(orch_pc, next, OrchestratorAwaits)
    /\ net_entry' = IF orch_pc = "clear_network" THEN Absent ELSE net_entry
    /\ img_entry' = IF orch_pc = "clear_images" THEN Absent ELSE img_entry
    /\ snap' = CASE orch_pc = "snapshot_network" ->
                        [snap EXCEPT !.network_data = net_entry]
                 [] orch_pc = "snapshot_images" ->
                        [snap EXCEPT !.images = img_entry]
                 [] OTHER -> snap
    /\ UNCHANGED resp_pc
    /\ UNCHANGED notLoopVars

(***************************************************************************)
(* One statement of a handler.                                             *)
(***************************************************************************)
HandlerStatement ==
    /\ running \in Handlers
    /\ resp_pc[running] # "done"
    /\ LET statement == resp_pc[running]
           next == After(HandlerProgram, statement)
       IN  /\ resp_pc' = [resp_pc EXCEPT ![running] = next]
           /\ running' \in Yields(statement, next, HandlerAwaits)
           /\ net_entry' =
                  CASE statement = "write_entry" -> Entry("written", running)
                    [] statement = "add_parsed_jsonp" ->
                           [net_entry EXCEPT !.state = "complete"]
                    [] OTHER -> net_entry
           /\ img_entry' =
                  CASE statement = "write_image" -> Entry("written", running)
                    [] statement = "add_image_format" ->
                           [img_entry EXCEPT !.state = "complete"]
                    [] OTHER -> img_entry
    /\ UNCHANGED <<orch_pc, snap>>
    /\ UNCHANGED notLoopVars

(***************************************************************************)
(* An attempt starts; the tables hold the entries of an earlier attempt    *)
(* at the store, or none; the handlers stand for the responses the         *)
(* attempt's page and the earlier pages will receive.                      *)
(***************************************************************************)
LoopInit ==
    /\ running = "none"
    /\ orch_pc = "new_page"
    /\ resp_pc = [h \in Handlers |-> "await_body"]
    /\ \E e \in {Absent, Entry("complete", "earlier")} :
         /\ net_entry = e
         /\ img_entry = e
    /\ snap = [network_data |-> Absent, images |-> Absent]
    /\ ScraperIdle
    /\ SolverIdle
    /\ SessionIdle
    /\ SaveIdle
    /\ ClientIdle
    /\ ExtractIdle
    /\ ContextIdle
    /\ BatchIdle
    /\ HelperIdle
    /\ EnhIdle

LoopNext ==
    \/ Resume
    \/ OrchestratorStatement
    \/ HandlerStatement

LoopSpec == LoopInit /\ [][LoopNext]_vars

(***************************************************************************)
(*        _restart_browser_session and the persisted cookies file          *)
(*                                                                         *)
(* The scraper between two stores, with a cookies file on disk.  In the    *)
(* specification of the orchestrator above there is no cookies file, so    *)
(* no cookie is ever put into a context there; here the file holds any of  *)
(* the contents _load_cookies may meet, _save_cookies_from_context         *)
(* rewrites it, and _restart_browser_session is called up to MaxRestarts   *)
(* times.                                                                  *)
(***************************************************************************)
MaxRestarts == 2

NoContextCookies == [expires |-> <<>>, add_failed |-> FALSE]

(***************************************************************************)
(* _load_cookies_to_context on a new context: the cookies _load_cookies    *)
(* returns from the file are handed to context.add_cookies; when that      *)
(* raises, the exception is logged and the context has no cookie.          *)
(***************************************************************************)
KeepContextCookies(file, t, add_ok) == context_cookies

LoadCookiesToContext(file, t, add_ok) ==
    LET cookies == LoadCookies(file, t).returns
    IN  IF cookies = NoSession THEN NoContextCookies
        ELSE IF add_ok THEN [expires |-> cookies.expires, add_failed |-> FALSE]
        ELSE [expires |-> <<>>, add_failed |-> TRUE]

(***************************************************************************)
(* What context.cookies() returns: session cookies and cookies that expire *)
(* later, with numeric expiry.                                             *)
(***************************************************************************)
BrowserCookies ==
    UNION {[1..n -> {ExpiresField("number", 2 * NoExpiry),
                     ExpiresField("number", 2 * (StartTime + 1))}] :
              n \in 0..MaxSavedCookies}

(***************************************************************************)
(* _save_cookies_from_context: the cookies of the live context are written *)
(* to the file; nothing is written when the context has no cookie.         *)
(***************************************************************************)
SaveCookiesFromContext ==
    /\ pc = "boundary"
    /\ context = "live"
    /\ op = "init"
    /\ \E browser_cookies \in BrowserCookies :
         cache_file' = IF browser_cookies = <<>> THEN cache_file
                       ELSE [kind |-> "cookie_file",
                             expires |-> browser_cookies]
    /\ op' = "save_cookies"
    /\ UNCHANGED <<generator, cache_validity_seconds, now, ticks,
                   session_data, outcome>>
    /\ UNCHANGED <<scraperVars, solverVars, restVars>>

(***************************************************************************)
(* A call of _restart_browser_session: the handles, session_active and the *)
(* counter as in RestartBrowserSession; a context that was set up gets the *)
(* cookies of the file, a context that was not has none, and when closing  *)
(* the old context raises everything stays as it was.                      *)
(***************************************************************************)
RestartSession ==
    /\ pc = "boundary"
    /\ Len(restarts) < MaxRestarts
    /\ \E o \in RestartOutcomes, add_ok \in BOOLEAN :
         LET r == RestartBrowserSession(o)
         IN  /\ browser' = r.browser
             /\ context' = r.context
             /\ session_active' = r.session_active
             /\ captcha_failure_count' = r.count
             /\ pages' = r.pages
             /\ restarts' = Append(restarts,
                                   IF r.raised THEN "failed" ELSE "ok")
             /\ context_cookies' =
                    CASE o = "close_fail" -> context_cookies
                      [] o = "ok" ->
                           LoadCookiesToContext(cache_file, now, add_ok)
                      [] OTHER -> NoContextCookies
    /\ last' = "step"
    /\ UNCHANGED <<cfgVars, loopVars, pc, result, page, response, waitVars,
                   tableVars, next_page, responses_left, loop_errors,
                   consec_failures, invocations>>
    /\ UNCHANGED notRestartVars

(***************************************************************************)
(* The scraper after some stores: a session that is live or has died, any  *)
(* value of the counter, a result gathered or none, entries in the tables  *)
(* or none, and any cookies file.                                          *)
(***************************************************************************)
RestartInit ==
    /\ store_ids = StoreList(S123, 2)
    /\ max_retries = 1
    /\ max_captcha_attempts = 1
    /\ pc = "boundary"
    /\ i = 2
    /\ attempt = 1
    /\ success = FALSE
    /\ result = NoResult
    /\ results \in {<<>>, <<NewResult(store_ids[1])>>}
    /\ page = 0
    /\ response = "none"
    /\ initial_count = 0
    /\ total_waited = 0
    /\ wait_time = 1
    /\ last_captcha_check = 0
    /\ \E state \in {"live", "dead"} : browser = state /\ context = state
    /\ session_active = TRUE
    /\ captcha_failure_count \in 0..2
    /\ \E captured \in BOOLEAN :
         /\ network_data = IF captured
                           THEN TablePut({}, store_ids[1], "credential", 1)
                           ELSE {}
         /\ image_data = IF captured
                         THEN TablePut({}, store_ids[1], "certificate_t", 1)
                         ELSE {}
    /\ pages = {}
    /\ next_page = 2
    /\ responses_left = 0
    /\ loop_errors = 0
    /\ last = "init"
    /\ restarts = <<>>
    /\ consec_failures = 0
    /\ invocations = 0
    /\ generator = "StoreCredentialsNetworkScraper"
    /\ cache_validity_seconds = 0
    /\ now = StartTime
    /\ ticks = 0
    /\ cache_file \in BrokenFiles \cup CookieFiles
    /\ session_data = NoSession
    /\ op = "init"
    /\ outcome = "none"
    /\ context_cookies = NoContextCookies
    /\ SolverIdle
    /\ SaveIdle
    /\ ClientIdle
    /\ ExtractIdle
    /\ LoopIdle
    /\ BatchIdle
    /\ HelperIdle
    /\ EnhIdle

RestartNext ==
    \/ SaveCookiesFromContext
    \/ RestartSession

RestartSpec == RestartInit /\ [][RestartNext]_vars

(***************************************************************************)
(*           AtomicBatchSellerProcessor: process_all_atomic                *)
(*                                                                         *)
(* A product is known by its position in the input.  The worker threads    *)
(* of a batch run _process_single_product_atomic; the main thread takes    *)
(* their futures from as_completed in the order in which they complete,    *)
(* which is any order.                                                     *)
(***************************************************************************)
MaxProducts == 3
MaxBatchSize == 2
MaxPrompts == 1
MaxBatchRetries == 3

(***************************************************************************)
(* What _process_single_product_atomic returns, or that it raises.         *)
(***************************************************************************)
ProductOutcomes ==
    {"ok", "Missing Product ID", "TOKEN_EXPIRED", "VALIDATION_ERROR",
     "CLI_ERROR", "PARSE_ERROR", "EXCEPTION"}

IsCritical(error) ==
    error \in {"TOKEN_EXPIRED", "VALIDATION_ERROR", "EXCEPTION"}

SeqRange(s) == {s[k] : k \in DOMAIN s}

(***************************************************************************)
(* products[batch_idx : batch_idx + self.batch_size]                       *)
(***************************************************************************)
Batch ==
    SubSeq(products, batch_idx + 1,
           Min(batch_idx + batch_size, Len(products)))

Collected ==
    SeqRange(batch_results) \cup {e.product : e \in SeqRange(batch_errors)}

(***************************************************************************)
(* The end of _process_atomic_batch: with any error the whole batch is     *)
(* returned as failed and no result is returned.                           *)
(***************************************************************************)
ReturnCompleted(batch, b_results, b_errors, c_error) ==
    [batch_results |-> b_results, batch_failures |-> <<>>,
     critical_error |-> "None"]

ProcessAtomicBatchReturn(batch, b_results, b_errors, c_error) ==
    IF b_errors # <<>>
    THEN [batch_results |-> <<>>, batch_failures |-> batch,
          critical_error |-> c_error]
    ELSE [batch_results |-> b_results, batch_failures |-> <<>>,
          critical_error |-> "None"]

(***************************************************************************)
(* A call of _process_atomic_batch begins: all products of the batch are   *)
(* submitted to the pool.                                                  *)
(***************************************************************************)
CallProcessAtomicBatch(site) ==
    /\ call_site' = site
    /\ batch_results' = <<>>
    /\ batch_errors' = <<>>
    /\ critical_error' = "None"
    /\ batch_pc' = "as_completed"

(***************************************************************************)
(* _load_products; without products process_all_atomic returns at once.    *)
(***************************************************************************)
BatchLoad ==
    /\ batch_pc = "load"
    /\ batch_pc' = IF products = <<>> THEN "done" ELSE "for_head"
    /\ UNCHANGED <<products, batch_size, batch_idx, call_site, batch_results,
                   batch_errors, critical_error, batch_failures, retry_count,
                   token_expired, prompts, seller_results, csv_rows,
                   failed_products>>
    /\ UNCHANGED notBatchVars

(***************************************************************************)
(* The head of the for loop over the batches.                              *)
(***************************************************************************)
BatchForHead ==
    /\ batch_pc = "for_head"
    /\ IF batch_idx < Len(products)
       THEN /\ CallProcessAtomicBatch("first")
            /\ batch_failures' = <<>>
            /\ retry_count' = 0
            /\ token_expired' = FALSE
       ELSE /\ batch_pc' = "done"
            /\ UNCHANGED <<call_site, batch_results, batch_errors,
                           critical_error, batch_failures, retry_count,
                           token_expired>>
    /\ UNCHANGED <<products, batch_size, batch_idx, prompts, seller_results,
                   csv_rows, failed_products>>
    /\ UNCHANGED notBatchVars

(***************************************************************************)
(* One turn of the loop over as_completed: the future of some product of   *)
(* the batch not yet collected has completed, with a result, an error or   *)
(* an exception.                                                           *)
(***************************************************************************)
BatchCollect ==
    /\ batch_pc = "as_completed"
    /\ \E product \in SeqRange(Batch) \ Collected, o \in ProductOutcomes :
         IF o = "ok"
         THEN /\ batch_results' = Append(batch_results, product)
              /\ UNCHANGED <<batch_errors, critical_error>>
         ELSE /\ batch_errors' =
                     Append(batch_errors, [product |-> product, error |-> o])
              /\ critical_error' = IF IsCritical(o) THEN o ELSE critical_error
              /\ UNCHANGED batch_results
    /\ UNCHANGED <<products, batch_size, batch_pc, batch_idx, call_site,
                   batch_failures, retry_count, token_expired, prompts,
                   seller_results, csv_rows, failed_products>>
    /\ UNCHANGED notBatchVars

(***************************************************************************)
(* _process_atomic_batch returns to process_all_atomic, which goes on      *)
(* after the call: the first call of the batch, the call in the retry      *)
(* loop, or the call after the operator gave a new cookie.                 *)
(***************************************************************************)
BatchReturns ==
    /\ batch_pc = "as_completed"
    /\ SeqRange(Batch) = Collected
    /\ LET r == ProcessAtomicBatchReturn(Batch, batch_results, batch_errors,
                                         critical_error)
           failed == r.batch_failures # <<>>
           expired == r.critical_error = "TOKEN_EXPIRED"
       IN  /\ batch_results' = r.batch_results
           /\ batch_failures' = r.batch_failures
           /\ critical_error' = r.critical_error
           /\ batch_errors' = <<>>
           /\ CASE call_site = "first" ->
                     /\ token_expired' = (failed /\ expired)
                     /\ batch_pc' = IF ~failed THEN "record"
                                    ELSE IF expired THEN "after_retries"
                                    ELSE "retry"
                [] call_site = "retry" ->
                     /\ token_expired' = (token_expired \/ (failed /\ expired))
                     /\ batch_pc' = IF ~failed \/ expired
                                    THEN "after_retries" ELSE "retry"
                [] OTHER ->
                     /\ UNCHANGED token_expired
                     /\ batch_pc' = IF ~failed THEN "record" ELSE "prompt"
    /\ call_site' = "none"
    /\ UNCHANGED <<products, batch_size, batch_idx, retry_count, prompts,
                   seller_results, csv_rows, failed_products>>
    /\ UNCHANGED notBatchVars

(***************************************************************************)
(* while retry_count < max_retries and batch_failures                      *)
(***************************************************************************)
BatchRetry ==
    /\ batch_pc = "retry"
    /\ IF retry_count < MaxBatchRetries /\ batch_failures # <<>>
       THEN /\ retry_count' = retry_count + 1
            /\ CallProcessAtomicBatch("retry")
       ELSE /\ batch_pc' = "after_retries"
            /\ UNCHANGED <<retry_count, call_site, batch_results,
                           batch_errors, critical_error>>
    /\ UNCHANGED <<products, batch_size, batch_idx, batch_failures,
                   token_expired, prompts, seller_results, csv_rows,
                   failed_products>>
    /\ UNCHANGED notBatchVars

(***************************************************************************)
(* if batch_failures and (retry_count >= max_retries or token_expired)     *)
(***************************************************************************)
BatchAfterRetries ==
    /\ batch_pc = "after_retries"
    /\ batch_pc' = IF batch_failures # <<>>
                      /\ (retry_count >= MaxBatchRetries \/ token_expired)
                   THEN "prompt" ELSE "record"
    /\ UNCHANGED <<products, batch_size, batch_idx, call_site, batch_results,
                   batch_errors, critical_error, batch_failures, retry_count,
                   token_expired, prompts, seller_results, csv_rows,
                   failed_products>>
    /\ UNCHANGED notBatchVars

(***************************************************************************)
(* The operator's answer: 1 a new cookie and the batch once more (or the   *)
(* operator quits at the cookie prompt), 2 skip the batch, 3 stop, after   *)
(* _save_results.  Any other answer asks again.                            *)
(***************************************************************************)
BatchPrompt ==
    /\ batch_pc = "prompt"
    /\ \E action \in {"1", "1q", "2", "3"} :
         CASE action = "1" ->
                /\ prompts < MaxPrompts
                /\ prompts' = prompts + 1
                /\ CallProcessAtomicBatch("prompt")
                /\ UNCHANGED batch_failures
           [] action = "1q" ->
                /\ batch_pc' = "exited"
                /\ UNCHANGED <<prompts, call_site, batch_results,
                               batch_errors, critical_error, batch_failures>>
           [] action = "2" ->
                /\ batch_results' = <<>>
                /\ batch_failures' = Batch
                /\ batch_pc' = "record"
                /\ UNCHANGED <<prompts, call_site, batch_errors,
                               critical_error>>
           [] action = "3" ->
                /\ batch_pc' = "stopped"
                /\ UNCHANGED <<prompts, call_site, batch_results,
                               batch_errors, critical_error, batch_failures>>
    /\ UNCHANGED <<products, batch_size, batch_idx, retry_count,
                   token_expired, seller_results, csv_rows, failed_products>>
    /\ UNCHANGED notBatchVars

(***************************************************************************)
(* The end of the loop body: _process_and_save_batch_results appends a CSV *)
(* row and a result for every result of the batch, the failures are        *)
(* appended to failed_products, and the loop goes to the next batch.       *)
(***************************************************************************)
BatchRecord ==
    /\ batch_pc = "record"
    /\ csv_rows' = csv_rows \o batch_results
    /\ seller_results' = seller_results \o batch_results
    /\ failed_products' = failed_products \o batch_failures
    /\ batch_idx' = batch_idx + batch_size
    /\ batch_pc' = "for_head"
    /\ UNCHANGED <<products, batch_size, call_site, batch_results,
                   batch_errors, critical_error, batch_failures, retry_count,
                   token_expired, prompts>>
    /\ UNCHANGED notBatchVars

BatchInit ==
    /\ \E n \in 0..MaxProducts : products = [k \in 1..n |-> k]
    /\ batch_size \in 1..MaxBatchSize
    /\ batch_pc = "load"
    /\ batch_idx = 0
    /\ call_site = "none"
    /\ batch_results = <<>>
    /\ batch_errors = <<>>
    /\ critical_error = "None"
    /\ batch_failures = <<>>
    /\ retry_count = 0
    /\ token_expired = FALSE
    /\ prompts = 0
    /\ seller_results = <<>>
    /\ csv_rows = <<>>
    /\ failed_products = <<>>
    /\ ScraperIdle
    /\ SolverIdle
    /\ SessionIdle
    /\ SaveIdle
    /\ ClientIdle
    /\ ExtractIdle
    /\ LoopIdle
    /\ ContextIdle
    /\ HelperIdle
    /\ EnhIdle

BatchNext ==
    \/ BatchLoad
    \/ BatchForHead
    \/ BatchCollect
    \/ BatchReturns
    \/ BatchRetry
    \/ BatchAfterRetries
    \/ BatchPrompt
    \/ BatchRecord

BatchSpec == BatchInit /\ [][BatchNext]_vars

(***************************************************************************)
(*              Text helpers of StoreCredentialsNetworkScraper             *)
(*                                                                         *)
(* _detect_image_format.  Its argument is a string with or without the     *)
(* prefix data:image/<declared>;base64, followed by base64 text, which is  *)
(* a sequence of digits 0..63.  A byte is a number 0..255.                 *)
(***************************************************************************)
B64Group(bytes, g) ==
    LET b1 == bytes[3 * g - 2]
        b2 == bytes[3 * g - 1]
        b3 == bytes[3 * g]
    IN  <<b1 \div 4, (b1 % 4) * 16 + b2 \div 16, (b2 % 16) * 4 + b3 \div 64,
          b3 % 64>>

(***************************************************************************)
(* base64.b64encode of a number of bytes that is a multiple of three.      *)
(***************************************************************************)
B64Encode(bytes) ==
    [k \in 1..(4 * (Len(bytes) \div 3)) |->
        B64Group(bytes, (k + 3) \div 4)[((k - 1) % 4) + 1]]

(***************************************************************************)
(* base64.b64decode: a text whose length is not a multiple of four raises  *)
(* binascii.Error (incorrect padding).                                     *)
(***************************************************************************)
B64Decode(text) ==
    IF Len(text) % 4 # 0 THEN [raised |-> TRUE, bytes |-> <<>>]
    ELSE [raised |-> FALSE,
          bytes |->
            [k \in 1..(3 * (Len(text) \div 4)) |->
               LET g == 4 * ((k - 1) \div 3)
                   d1 == text[g + 1]
                   d2 == text[g + 2]
                   d3 == text[g + 3]
                   d4 == text[g + 4]
               IN  CASE (k - 1) % 3 = 0 -> d1 * 4 + d2 \div 16
                     [] (k - 1) % 3 = 1 -> (d2 % 16) * 16 + d3 \div 4
                     [] OTHER -> (d3 % 4) * 64 + d4]]

(***************************************************************************)
(* The first fifteen bytes of image files and of other payloads.           *)
(***************************************************************************)
Fixtures ==
    [jpeg |-> <<255, 216, 255, 224, 0, 16, 74, 70, 73, 70, 0, 1, 1, 0, 0>>,
     png |-> <<137, 80, 78, 71, 13, 10, 26, 10, 0, 0, 0, 13, 73, 72, 68>>,
     gif87a |-> <<71, 73, 70, 56, 55, 97, 1, 0, 1, 0, 128, 0, 0, 0, 0>>,
     gif89a |-> <<71, 73, 70, 56, 57, 97, 1, 0, 1, 0, 128, 0, 0, 0, 0>>,
     webp |-> <<82, 73, 70, 70, 26, 0, 0, 0, 87, 69, 66, 80, 86, 80, 56>>,
     wave |-> <<82, 73, 70, 70, 36, 0, 0, 0, 87, 65, 86, 69, 102, 109, 116>>,
     bmp |-> <<66, 77, 70, 0, 0, 0, 0, 0, 0, 0, 54, 0, 0, 0, 40>>,
     text |-> <<104, 101, 108, 108, 111, 32, 119, 111, 114, 108, 100, 33, 33,
                33, 33>>]

FixtureNames == DOMAIN Fixtures

(***************************************************************************)
(* The format a payload's magic number implies, "None" if it implies none. *)
(***************************************************************************)
MagicFormat(decoded) ==
    CASE StartsWith(decoded, <<255, 216, 255>>) -> "jpeg"
      [] StartsWith(decoded, <<137, 80, 78, 71, 13, 10, 26, 10>>) -> "png"
      [] StartsWith(decoded, <<71, 73, 70, 56, 55, 97>>)
           \/ StartsWith(decoded, <<71, 73, 70, 56, 57, 97>>) -> "gif"
      [] StartsWith(decoded, <<82, 73, 70, 70>>)
           /\ Contains(decoded, <<87, 69, 66, 80>>) -> "webp"
      [] StartsWith(decoded, <<66, 77>>) -> "bmp"
      [] OTHER -> "None"

DeclaredFormats == {"jpeg", "png", "gif", "webp", "bmp", "svg+xml"}

Base64Prefix == 20

ImageStrings ==
    {[declared |-> d, payload |-> p] :
        d \in DeclaredFormats \cup {"none"},
        p \in {B64Encode(Fixtures[n]) : n \in FixtureNames}
              \cup {SubSeq(B64Encode(Fixtures.jpeg), 1, 6)}}

DetectImageFormat(base64_data) ==
    IF base64_data.declared # "none" THEN base64_data.declared
    ELSE LET text == base64_data.payload
             decoded ==
                 B64Decode(SubSeq(text, 1, Min(Base64Prefix, Len(text))))
         IN  IF decoded.raised THEN "None" ELSE MagicFormat(decoded.bytes)

CallDetectImageFormat ==
    /\ helper = "_detect_image_format"
    /\ helper_ret = <<>>
    /\ helper_ret' = <<DetectImageFormat(helper_arg)>>
    /\ UNCHANGED <<helper, helper_arg>>
    /\ UNCHANGED notHelperVars

(***************************************************************************)
(* The JSONP parsers.  A response text is a sequence of tokens:            *)
(*   "f" a letter, "1" a digit (also the JSON number 1), " " white space,  *)
(*   "(" ")" ";" themselves, "{" "}" "[" "]" the JSON brackets, and "k"    *)
(*   a member name with its colon ("a":).                                  *)
(***************************************************************************)
IdentifierStart == {"f"}

IdentifierChars == {"f", "1"}

WhiteSpace == {" "}

SetMax(S) == CHOOSE x \in S : \A y \in S : y <= x

SetMin(S) == CHOOSE x \in S : \A y \in S : x <= y

(***************************************************************************)
(* The first position from pos on that holds no token of the class, or     *)
(* Len(text) + 1.                                                          *)
(***************************************************************************)
SkipClass(text, pos, class) ==
    SetMin({k \in pos..(Len(text) + 1) :
               k = Len(text) + 1 \/ text[k] \notin class})

SkipWs(text, pos) == SkipClass(text, pos, WhiteSpace)

(***************************************************************************)
(* str.strip()                                                             *)
(***************************************************************************)
Strip(text) ==
    LET inked == {k \in DOMAIN text : text[k] \notin WhiteSpace}
    IN  IF inked = {} THEN <<>>
        ELSE SubSeq(text, SetMin(inked), SetMax(inked))

(***************************************************************************)
(* json.loads.  The scanner calls itself for every nested container and    *)
(* raises RecursionError when the nesting passes the interpreter's         *)
(* recursion limit; any other failure is a JSONDecodeError.                *)
(***************************************************************************)
JsonError(kind) == [status |-> kind, value |-> Null, next |-> 0]

JsonOk(value, next) == [status |-> "ok", value |-> value, next |-> next]

RECURSIVE ScanOnce(_, _, _, _)
ScanContainer(text, q, depth, limit) ==
    LET r == SkipWs(text, q + 1)
        closer == IF text[q] = "{" THEN "}" ELSE "]"
        empty == IF text[q] = "{" THEN DictOf(<<>>, <<>>) ELSE ListOf(<<>>)
        at == IF text[q] = "{" THEN r + 1 ELSE r
        inner == ScanOnce(text, at, depth + 1, limit)
        s == SkipWs(text, inner.next)
    IN  IF depth + 1 > limit THEN JsonError("RecursionError")
        ELSE IF r > Len(text) THEN JsonError("JSONDecodeError")
        ELSE IF text[r] = closer THEN JsonOk(empty, r + 1)
        ELSE IF text[q] = "{" /\ text[r] # "k"
        THEN JsonError("JSONDecodeError")
        ELSE IF inner.status # "ok" THEN inner
        ELSE IF s > Len(text) \/ text[s] # closer
        THEN JsonError("JSONDecodeError")
        ELSE JsonOk(IF text[q] = "{" THEN DictOf(<<"a">>, <<inner.value>>)
                    ELSE ListOf(<<inner.value>>), s + 1)

ScanOnce(text, pos, depth, limit) ==
    LET q == SkipWs(text, pos)
    IN  IF q > Len(text) THEN JsonError("JSONDecodeError")
        ELSE IF text[q] = "1" THEN JsonOk(Number, q + 1)
        ELSE IF text[q] \in {"{", "["}
        THEN ScanContainer(text, q, depth, limit)
        ELSE JsonError("JSONDecodeError")

JsonLoads(text, limit) ==
    LET r == ScanOnce(text, 1, 0, limit)
    IN  IF r.status = "ok" /\ SkipWs(text, r.next) <= Len(text)
        THEN JsonError("JSONDecodeError")
        ELSE r

Raises(error) == [kind |-> "raised", error |-> error]

(***************************************************************************)
(* AliExpressClient._parse_jsonp_response.  re.match on the stripped text  *)
(* of: no opening parenthesis any number of times, an opening parenthesis, *)
(* the group (anything), a closing parenthesis, no closing parenthesis any *)
(* number of times, the end.  The opening parenthesis it matches is the    *)
(* first of the text and the closing one the last, and the group is what   *)
(* stands between them.  Only JSONDecodeError is caught.                   *)
(***************************************************************************)
ClientGroup(text) ==
    LET opens == {k \in DOMAIN text : text[k] = "("}
        closes == {k \in DOMAIN text : text[k] = ")"}
    IN  IF opens = {} \/ closes = {} THEN None
        ELSE IF SetMax(closes) < SetMin(opens) THEN None
        ELSE Some(SubSeq(text, SetMin(opens) + 1, SetMax(closes) - 1))

ClientParseJsonpResponse(response_text, limit) ==
    LET match == ClientGroup(Strip(response_text))
        loaded == JsonLoads(match.value, limit)
    IN  IF match = None THEN None
        ELSE CASE loaded.status = "ok" -> Some(loaded.value)
               [] loaded.status = "JSONDecodeError" -> None
               [] OTHER -> Raises(loaded.status)

(***************************************************************************)
(* StoreCredentialsNetworkScraper._parse_jsonp_response.  re.search of     *)
(* [a-zA-Z_][a-zA-Z0-9_]*\s*\(\s*({.*})\s*\)\s*;? with DOTALL: from the    *)
(* leftmost letter after which a match exists, the identifier and the      *)
(* white space run to the parenthesis, white space to the brace, and the   *)
(* group ends at the last closing brace that white space and a closing     *)
(* parenthesis follow.  Without a match a text in braces is loaded whole.  *)
(* Every exception is caught.                                              *)
(***************************************************************************)
BraceAfter(text, start) ==
    LET a == SkipWs(text, SkipClass(text, start, IdentifierChars))
        b == SkipWs(text, a + 1)
    IN  IF a <= Len(text) /\ text[a] = "(" /\ b <= Len(text) /\ text[b] = "{"
        THEN b ELSE 0

GroupEnds(text, b) ==
    {c \in (b + 1)..Len(text) :
        /\ text[c] = "}"
        /\ SkipWs(text, c + 1) <= Len(text)
        /\ text[SkipWs(text, c + 1)] = ")"}

ScraperGroup(text) ==
    LET starts == {k \in DOMAIN text :
                      /\ text[k] \in IdentifierStart
                      /\ BraceAfter(text, k) # 0
                      /\ GroupEnds(text, BraceAfter(text, k)) # {}}
        b == BraceAfter(text, SetMin(starts))
    IN  IF starts = {} THEN None
        ELSE Some(SubSeq(text, b, SetMax(GroupEnds(text, b))))

CatchAll(loaded) ==
    IF loaded.status = "ok" THEN Some(loaded.value) ELSE None

ScraperParseJsonpResponse(text_data, limit) ==
    LET match == ScraperGroup(text_data)
        stripped == Strip(text_data)
    IN  IF match # None THEN CatchAll(JsonLoads(match.value, limit))
        ELSE IF StartsWith(stripped, <<"{">>)
                /\ stripped[Len(stripped)] = "}"
        THEN CatchAll(JsonLoads(text_data, limit))
        ELSE None

(***************************************************************************)
(* The texts: a callback name or none, parentheses matched or not, a body  *)
(* that is JSON or not, a tail.  sys.getrecursionlimit() is scaled to the  *)
(* nesting of these bodies.                                                *)
(***************************************************************************)
Callbacks == {<<>>, <<"f">>, <<"f", "1">>, <<"1">>, <<" ", "f", " ">>}

JsonpBodies ==
    {<<>>, <<"{", "k", "1", "}">>, <<"{", "}">>, <<"1">>, <<"[", "1", "]">>,
     <<"{", "k", "{", "k", "1", "}", "}">>,
     <<"{", "k", "[", "[", "1", "]", "]", "}">>,
     <<"{", " ", "k", " ", "1", " ", "}">>,
     <<"f">>, <<"{", "k", "1">>, <<"{", "k", "f", "}">>,
     <<"{", "k", "1", "}", "}">>}

Wrappers ==
    {<<<<>>, <<>>>>, <<<<"(">>, <<")">>>>, <<<<"(">>, <<>>>>,
     <<<<>>, <<")">>>>, <<<<"(", "(">>, <<")">>>>, <<<<"(">>, <<")", ")">>>>,
     <<<<"(", " ">>, <<" ", ")">>>>}

Tails == {<<>>, <<";">>, <<" ">>}

ResponseTexts ==
    {c \o w[1] \o b \o w[2] \o t :
        c \in Callbacks, w \in Wrappers, b \in JsonpBodies, t \in Tails}

RecursionLimits == {2, 4}

JsonpParsers ==
    {"AliExpressClient._parse_jsonp_response",
     "StoreCredentialsNetworkScraper._parse_jsonp_response"}

ParseJsonp(parser, arg) ==
    IF parser = "AliExpressClient._parse_jsonp_response"
    THEN ClientParseJsonpResponse(arg.text, arg.limit)
    ELSE ScraperParseJsonpResponse(arg.text, arg.limit)

CallParseJsonpResponse ==
    /\ helper \in JsonpParsers
    /\ helper_ret = <<>>
    /\ helper_ret' = <<ParseJsonp(helper, helper_arg)>>
    /\ UNCHANGED <<helper, helper_arg>>
    /\ UNCHANGED notHelperVars

(***************************************************************************)
(* _is_certificate_api and _get_api_type.  A URL is a sequence of pieces;  *)
(* no word the two methods look for spans two pieces.                      *)
(***************************************************************************)
MaxUrlPieces == 3

UrlPieces ==
    {"credential", "Credential", "license", "certificate", "qualification",
     "shop", "STORE", "info", "aliexpress.com", "mtop", "item"}

Lower(piece) ==
    CASE piece = "Credential" -> "credential"
      [] piece = "STORE" -> "store"
      [] OTHER -> piece

UrlLower(url) == [k \in DOMAIN url |-> Lower(url[k])]

Urls == UNION {[1..n -> UrlPieces] : n \in 0..MaxUrlPieces}

In(word, url_lower) == \E k \in DOMAIN url_lower : url_lower[k] = word

(***************************************************************************)
(* re.search of first.*second                                              *)
(***************************************************************************)
InOrder(first, second, url_lower) ==
    \E j, k \in DOMAIN url_lower :
        j < k /\ url_lower[j] = first /\ url_lower[k] = second

IsCertificateApi(url) ==
    LET url_lower == UrlLower(url)
    IN  \/ \E word \in {"credential", "certificate", "license",
                        "qualification"} : In(word, url_lower)
        \/ \E first \in {"shop", "company", "store", "seller"} :
              InOrder(first, "info", url_lower)
        \/ /\ In("aliexpress.com", url_lower)
           /\ \E keyword \in {"mtop", "api", "h5", "ajax", "service"} :
                 In(keyword, url_lower)

GetApiTypeKeyword(url) ==
    LET url_lower == UrlLower(url)
    IN  CASE In("credential", url_lower) -> "credential"
          [] In("license", url_lower) -> "license"
          [] In("certificate", url_lower) -> "certificate"
          [] In("qualification", url_lower) -> "qualification"
          [] In("shop", url_lower) -> "shop"
          [] In("store", url_lower) -> "store"
          [] OTHER -> "unknown"

GetApiTypeOfUrl(url) ==
    LET url_lower == UrlLower(url)
    IN  IF In("credential", url_lower) THEN "credential"
        ELSE IF In("license", url_lower) THEN "license"
        ELSE IF In("certificate", url_lower) THEN "certificate"
        ELSE IF In("qualification", url_lower) THEN "qualification"
        ELSE IF In("shop", url_lower) \/ In("store", url_lower)
        THEN "shop_info"
        ELSE "unknown"

CallGetApiType ==
    /\ helper = "_get_api_type"
    /\ helper_ret = <<>>
    /\ helper_ret' = <<GetApiTypeOfUrl(helper_arg)>>
    /\ UNCHANGED <<helper, helper_arg>>
    /\ UNCHANGED notHelperVars

(***************************************************************************)
(* A helper is called once with an argument of its domain.                 *)
(***************************************************************************)
HelperCalls ==
    {[helper |-> "_detect_image_format", arg |-> a] : a \in ImageStrings}
    \cup {[helper |-> p, arg |-> [text |-> t, limit |-> l]] :
             p \in JsonpParsers, t \in ResponseTexts, l \in RecursionLimits}
    \cup {[helper |-> "_get_api_type", arg |-> u] : u \in Urls}

HelperInit ==
    /\ \E c \in HelperCalls :
         /\ helper = c.helper
         /\ helper_arg = c.arg
    /\ helper_ret = <<>>
    /\ ScraperIdle
    /\ SolverIdle
    /\ SessionIdle
    /\ SaveIdle
    /\ ClientIdle
    /\ ExtractIdle
    /\ LoopIdle
    /\ ContextIdle
    /\ BatchIdle
    /\ EnhIdle

HelperNext ==
    \/ CallDetectImageFormat
    \/ CallParseJsonpResponse
    \/ CallGetApiType

HelperSpec == HelperInit /\ [][HelperNext]_vars

(***************************************************************************)
(*      _wait_for_credential_api with several responses in one attempt     *)
(*                                                                         *)
(* The first attempt at one store, from page.goto to the image wait, on a  *)
(* page that receives up to MaxWaitResponses responses.                    *)
(***************************************************************************)
MaxWaitResponses == 2

WaitInit ==
    /\ store_ids = StoreList(S123, 1)
    /\ max_retries = 0
    /\ max_captcha_attempts \in 1..MaxCaptchaCfg
    /\ pc = "navigating"
    /\ i = 1
    /\ attempt = 1
    /\ success = FALSE
    /\ result = NewResult(store_ids[1])
    /\ results = <<>>
    /\ page = 1
    /\ response = "none"
    /\ initial_count = 0
    /\ total_waited = 0
    /\ wait_time = 1
    /\ last_captcha_check = 0
    /\ browser = "live"
    /\ context = "live"
    /\ session_active = TRUE
    /\ captcha_failure_count = 0
    /\ network_data = {}
    /\ image_data = {}
    /\ pages = {[id |-> 1, sid |-> store_ids[1]]}
    /\ next_page = 2
    /\ responses_left \in 0..MaxWaitResponses
    /\ loop_errors = 0
    /\ last = "step"
    /\ restarts = <<>>
    /\ consec_failures = 0
    /\ invocations = 1
    /\ SolverIdle
    /\ SessionIdle
    /\ RestIdle

WaitNext ==
    \/ GotoReturns
    \/ DetectCaptcha
    \/ SolveCaptcha
    \/ PostSolve
    \/ StartWaitForCredentialApi
    \/ WaitForCredentialApiCaptured
    \/ WaitForCredentialApiTimeout
    \/ HandleResponse

WaitSpec == WaitInit /\ [][WaitNext]_vars

(***************************************************************************)
(*      EnhancedAliExpressClient: get_product_with_auto_cookies            *)
(*                                                                         *)
(* The client asks its CookieGenerator for cookies, validates them, calls  *)
(* the product API and may retry once with fresh cookies.  A cookie string *)
(* is the sequence of its pieces, as for the cookie generator.  The cache  *)
(* file holds no session, or one session with its cookie string and        *)
(* whether its timestamp is older than the validity window.                *)
(***************************************************************************)
MaxGenerations == 4

NoCookies == <<>>

CachedSession(cookies, expired) ==
    <<[cookies |-> cookies, expired |-> expired]>>

CookieResult(ok, cookies, from_cache) ==
    [success |-> ok, cookies |-> cookies, from_cache |-> from_cache]

ProductResult(ok) == [success |-> ok, retry_attempted |-> FALSE]

(***************************************************************************)
(* What a browser launch of generate_fresh_cookies comes to: the launch    *)
(* raises (the exception leaves the generator), the visit raises (caught:  *)
(* success False), or the context yields a set of cookies, possibly none.  *)
(***************************************************************************)
GenerationOutcomes ==
    {[kind |-> k, jar |-> {}] : k \in {"launch_raises", "visit_raises"}}
        \cup {[kind |-> "ok", jar |-> jar] :
                 jar \in CookieJars("CookieGenerator")}

(***************************************************************************)
(* refresh_session_if_expired takes the cached session when there is one   *)
(* and is_session_expired is false for it: its timestamp is inside the     *)
(* window and its cookies pass validate_cookies.                           *)
(***************************************************************************)
CacheUsable(cache) ==
    /\ cache # <<>>
    /\ ~cache[1].expired
    /\ ValidateCookies("CookieGenerator", cache[1].cookies)

(***************************************************************************)
(* CookieGenerator.get_valid_cookies(force_refresh): the result dictionary *)
(* (from_cache read with .get("from_cache", False)), given the cache and   *)
(* the outcome of the browser launch it may make.                          *)
(***************************************************************************)
FreshCookies(o) ==
    IF o.kind = "ok"
    THEN CookieResult(TRUE, ExtractCookiesFromContext(o.jar), FALSE)
    ELSE CookieResult(FALSE, NoCookies, FALSE)

GetValidCookies(force, cache, o) ==
    IF ~force /\ CacheUsable(cache)
    THEN CookieResult(TRUE, cache[1].cookies, TRUE)
    ELSE FreshCookies(o)

(***************************************************************************)
(* _get_valid_cookies after the generator has returned result: whether it  *)
(* calls itself again with force_refresh=True.                             *)
(***************************************************************************)
RecursesOnInvalid(r, force) ==
    /\ r.success
    /\ r.cookies # NoCookies
    /\ ~ValidateCookies("CookieGenerator", r.cookies)
    /\ ~force

TopFrame == enh_frames[Len(enh_frames)]

SetTop(frame) == [enh_frames EXCEPT ![Len(enh_frames)] = frame]

(***************************************************************************)
(* get_product_with_auto_cookies(product_id, manual_cookies) is called.    *)
(* With manual cookies it is self.get_product with them: one API call.     *)
(***************************************************************************)
EnhCall ==
    /\ enh_pc = "called"
    /\ \E manual_cookies \in BOOLEAN :
         IF manual_cookies
         THEN /\ \E ok \in BOOLEAN : enh_result' = ProductResult(ok)
              /\ api_calls' = api_calls + 1
              /\ enh_pc' = "done"
              /\ UNCHANGED enh_frames
         ELSE /\ enh_frames' = <<[at |-> "cookies", from_cache |-> FALSE]>>
              /\ enh_pc' = "get_valid_cookies"
              /\ UNCHANGED <<enh_result, api_calls>>
    /\ force_refresh' = FALSE
    /\ recursions' = 0
    /\ UNCHANGED <<auto_retry, enh_cache, cookie_result, generations>>
    /\ UNCHANGED notEnhVars

(***************************************************************************)
(* One activation of _get_valid_cookies(force_refresh): the generator's    *)
(* get_valid_cookies (a browser launch unless the cache is taken; a        *)
(* successful visit writes the cache file), the validation, and either     *)
(* the recursive call with force_refresh=True or the return.  An exception *)
(* is turned into a failure result.                                        *)
(***************************************************************************)
EnhGetValidCookies ==
    /\ enh_pc = "get_valid_cookies"
    /\ \E o \in GenerationOutcomes :
         LET launches == force_refresh \/ ~CacheUsable(enh_cache)
             r == GetValidCookies(force_refresh, enh_cache, o)
         IN  /\ launches => generations < MaxGenerations
             /\ generations' = IF launches THEN generations + 1
                               ELSE generations
             /\ enh_cache' = IF launches /\ o.kind = "ok"
                             THEN CachedSession(r.cookies, FALSE)
                             ELSE enh_cache
             /\ IF launches /\ o.kind = "launch_raises"
                THEN /\ cookie_result' = CookieResult(FALSE, NoCookies, FALSE)
                     /\ enh_pc' = IF TopFrame.at = "cookies"
                                  THEN "after_cookies" ELSE "after_refresh"
                     /\ UNCHANGED <<force_refresh, recursions>>
                ELSE IF RecursesOnInvalid(r, force_refresh)
                THEN /\ force_refresh' = TRUE
                     /\ recursions' = recursions + 1
                     /\ UNCHANGED <<cookie_result, enh_pc>>
                ELSE /\ cookie_result' = r
                     /\ enh_pc' = IF TopFrame.at = "cookies"
                                  THEN "after_cookies" ELSE "after_refresh"
                     /\ UNCHANGED <<force_refresh, recursions>>
    /\ UNCHANGED <<auto_retry, enh_frames, enh_result, api_calls>>
    /\ UNCHANGED notEnhVars

(***************************************************************************)
(* self.get_product(product_id, cookies) of the enhanced client, called by *)
(* the top frame, which then waits at the statement named waiting: with a  *)
(* non-empty cookie string it is the API call of the base client, whose    *)
(* result is looked at in the statement named then; with an empty one it   *)
(* is get_product_with_auto_cookies(product_id) again, in a new frame.     *)
(***************************************************************************)
GetProduct(frame, cookies, waiting, then) ==
    IF cookies # NoCookies
    THEN /\ \E ok \in BOOLEAN : enh_result' = ProductResult(ok)
         /\ api_calls' = api_calls + 1
         /\ enh_frames' = SetTop([frame EXCEPT !.at = waiting])
         /\ enh_pc' = then
         /\ UNCHANGED <<force_refresh, recursions>>
    ELSE /\ enh_frames' = Append(SetTop([frame EXCEPT !.at = waiting]),
                                 [at |-> "cookies", from_cache |-> FALSE])
         /\ enh_pc' = "get_valid_cookies"
         /\ force_refresh' = FALSE
         /\ recursions' = 0
         /\ UNCHANGED <<enh_result, api_calls>>

(***************************************************************************)
(* After cookie_result = self._get_valid_cookies(force_refresh=False): the *)
(* failure return, or from_cache and the first get_product.                *)
(***************************************************************************)
EnhAfterCookies ==
    /\ enh_pc = "after_cookies"
    /\ IF ~cookie_result.success
       THEN /\ enh_result' = ProductResult(FALSE)
            /\ enh_pc' = "return"
            /\ UNCHANGED <<enh_frames, api_calls, force_refresh, recursions>>
       ELSE GetProduct([TopFrame EXCEPT
                           !.from_cache = cookie_result.from_cache],
                       cookie_result.cookies, "product", "after_api")
    /\ UNCHANGED <<auto_retry, enh_cache, cookie_result, generations>>
    /\ UNCHANGED notEnhVars

(***************************************************************************)
(* if not result["success"] and self.auto_retry and from_cache: the call   *)
(* of _get_valid_cookies(force_refresh=True); otherwise the return.        *)
(***************************************************************************)
RetriesWithFreshCookies(r, frame) ==
    ~r.success /\ auto_retry /\ frame.from_cache

EnhAfterApi ==
    /\ enh_pc = "after_api"
    /\ IF RetriesWithFreshCookies(enh_result, TopFrame)
       THEN /\ enh_frames' = SetTop([TopFrame EXCEPT !.at = "refresh"])
            /\ force_refresh' = TRUE
            /\ recursions' = 0
            /\ enh_pc' = "get_valid_cookies"
       ELSE /\ enh_pc' = "return"
            /\ UNCHANGED <<enh_frames, force_refresh, recursions>>
    /\ UNCHANGED <<auto_retry, enh_cache, cookie_result, enh_result,
                   generations, api_calls>>
    /\ UNCHANGED notEnhVars

(***************************************************************************)
(* After fresh_cookie_result = self._get_valid_cookies(force_refresh=True):*)
(* the second get_product, or cookie_refresh_error on the first result.    *)
(***************************************************************************)
EnhAfterRefresh ==
    /\ enh_pc = "after_refresh"
    /\ IF cookie_result.success
       THEN GetProduct(TopFrame, cookie_result.cookies, "retry_product",
                       "after_retry")
       ELSE /\ enh_pc' = "return"
            /\ UNCHANGED <<enh_frames, enh_result, api_calls, force_refresh,
                           recursions>>
    /\ UNCHANGED <<auto_retry, enh_cache, cookie_result, generations>>
    /\ UNCHANGED notEnhVars

(***************************************************************************)
(* result["retry_attempted"] = True on the result of the second call.      *)
(***************************************************************************)
EnhAfterRetry ==
    /\ enh_pc = "after_retry"
    /\ enh_result' = [enh_result EXCEPT !.retry_attempted = TRUE]
    /\ enh_pc' = "return"
    /\ UNCHANGED <<auto_retry, enh_cache, force_refresh, cookie_result,
                   enh_frames, generations, api_calls, recursions>>
    /\ UNCHANGED notEnhVars

(***************************************************************************)
(* get_product_with_auto_cookies returns its result: to the caller of the  *)
(* client, or to the frame below, which called it through get_product with *)
(* an empty cookie string and goes on after that call.                     *)
(***************************************************************************)
EnhReturn ==
    /\ enh_pc = "return"
    /\ LET below == SubSeq(enh_frames, 1, Len(enh_frames) - 1)
       IN  /\ enh_frames' = below
           /\ enh_pc' = IF below = <<>> THEN "done"
                        ELSE IF below[Len(below)].at = "product"
                        THEN "after_api" ELSE "after_retry"
    /\ UNCHANGED <<auto_retry, enh_cache, force_refresh, cookie_result,
                   enh_result, generations, api_calls, recursions>>
    /\ UNCHANGED notEnhVars

(***************************************************************************)
(* A client with or without auto_retry, over a cache file that holds no    *)
(* session or a session written by an earlier run.                         *)
(***************************************************************************)
EnhInit ==
    /\ enh_pc = "called"
    /\ auto_retry \in BOOLEAN
    /\ enh_cache \in
           {<<>>} \cup
               {CachedSession(ExtractCookiesFromContext(jar), expired) :
                   jar \in CookieJars("CookieGenerator"),
                   expired \in BOOLEAN}
    /\ force_refresh = FALSE
    /\ cookie_result = CookieResult(FALSE, NoCookies, FALSE)
    /\ enh_frames = <<>>
    /\ enh_result = ProductResult(FALSE)
    /\ generations = 0
    /\ api_calls = 0
    /\ recursions = 0
    /\ ScraperIdle
    /\ SolverIdle
    /\ SessionIdle
    /\ SaveIdle
    /\ ClientIdle
    /\ ExtractIdle
    /\ LoopIdle
    /\ ContextIdle
    /\ BatchIdle
    /\ HelperIdle

EnhNext ==
    \/ EnhCall
    \/ EnhGetValidCookies
    \/ EnhAfterCookies
    \/ EnhAfterApi
    \/ EnhAfterRefresh
    \/ EnhAfterRetry
    \/ EnhReturn

EnhSpec == EnhInit /\ [][EnhNext]_vars

(***************************************************************************)
(*                    Properties of the orchestrator                       *)
(***************************************************************************)
InAttempt ==
    pc \in {"navigating", "detect", "solve", "post_solve", "renavigated",
            "reloaded", "wait_api_1", "wait_api_2", "image_wait",
            "final_wait", "returned"}

FirstAttemptNext == pc = "loop" /\ attempt = 1 /\ LoopContinues

Last(s) == s[Len(s)]

(***************************************************************************)
(* C1: whenever an attempt has failed (an exception inside                 *)
(* _scrape_single_store, or a navigation response missing or not 200) the  *)
(* result it returns has status error, and its images and network_data     *)
(* hold every entry the two tables hold for the store at that moment.      *)
(***************************************************************************)
C1_FailedAttemptKeepsEntries ==
    (pc = "returned" /\ result.error) =>
        /\ result.status = "error"
        /\ StoreEntries(image_data, result.store_id) \subseteq result.images
        /\ StoreEntries(network_data, result.store_id)
               \subseteq result.network_data

(***************************************************************************)
(* C2: when max_captcha_attempts solver runs in a row have failed, the     *)
(* next store starts after exactly one restart and with the counter at     *)
(* zero, whatever status the blocked pages returned.  Runs in which a      *)
(* restart itself fails are left aside.                                    *)
(***************************************************************************)
C2_OneRestartAfterThreshold ==
    (/\ FirstAttemptNext
     /\ consec_failures >= max_captcha_attempts
     /\ \A k \in 1..Len(restarts) : restarts[k] = "ok") =>
        /\ Len(restarts) = 1
        /\ captcha_failure_count = 0

C5_ResultEntriesFromOwnPage ==
    pc = "returned" =>
        \A e \in result.images \cup result.network_data : e.page = page

C7_AtMostMaxRetriesAttempts ==
    [][invocations' = invocations + 1 =>
          /\ invocations < max_retries
          /\ ~success
          /\ result.status # "success"]_vars

C7_RetriesExhausted ==
    /\ pc = "loop"
    /\ max_retries = 2
    /\ invocations = 2
    /\ ~success
    /\ ~LoopContinues

(***************************************************************************)
(* C8: the counter goes up by one on every failed solver run, at initial   *)
(* load or in the image-wait loop, and on nothing else; it is zero after a *)
(* challenge solved at initial load and after an attempt that returned     *)
(* success.                                                                *)
(***************************************************************************)
C8_CounterTracksFailedSolverRuns ==
    [][/\ last' \in {"captcha_solve_failed", "dynamic_solve_failed"} =>
              captcha_failure_count' = captcha_failure_count + 1
       /\ captcha_failure_count' > captcha_failure_count =>
              last' \in {"captcha_solve_failed", "dynamic_solve_failed"}
       /\ last' = "captcha_solved" => captcha_failure_count' = 0
       /\ (pc = "returned" /\ result.status = "success") =>
              captcha_failure_count' = 0]_vars

(***************************************************************************)
(*                 Properties of the CAPTCHA solver entry points           *)
(***************************************************************************)

(***************************************************************************)
(* C3: every entry point returns to its caller, whatever the page shows,   *)
(* having made no more solve attempts than its limit.                      *)
(***************************************************************************)
C3_EntryPointsTerminate ==
    /\ [](captcha_attempts <= AttemptLimit(entry))
    /\ <>(solver_pc = "returned")

(***************************************************************************)
(*            Properties of the session cache and the cookies file         *)
(***************************************************************************)
SavedSession ==
    /\ session_data # NoSession
    /\ session_data.kind = "dict"
    /\ cache_file = session_data

(***************************************************************************)
(* C9: on a session the generator has saved, whatever its cookies,         *)
(* is_session_expired is false before timestamp + window and true from     *)
(* then on.                                                                *)
(***************************************************************************)
C9_ExpiredExactlyAfterWindow ==
    (op = "is_session_expired" /\ SavedSession) =>
        (outcome = "true" <=>
             now >= GetTimestamp(session_data) + cache_validity_seconds)

(***************************************************************************)
(* C9 as amended: on a saved session whose cookies pass validate_cookies,  *)
(* is_session_expired is false before timestamp + window and true from     *)
(* then on; on a saved session whose cookies do not pass, it is true at    *)
(* every time.                                                             *)
(***************************************************************************)
C9_ExpiredAfterWindowOrInvalid ==
    (op = "is_session_expired" /\ SavedSession) =>
        IF ValidateCookies(generator, session_data.cookies)
        THEN outcome = "true" <=>
                 now >= GetTimestamp(session_data) + cache_validity_seconds
        ELSE outcome = "true"

C9_ExpiredAtWindow ==
    /\ op = "is_session_expired"
    /\ SavedSession
    /\ ValidateCookies(generator, session_data.cookies)
    /\ now = GetTimestamp(session_data) + cache_validity_seconds
    /\ GetTimestamp(session_data) > 0
    /\ outcome = "true"

(***************************************************************************)
(* C10: whatever the file holds, a load that finds no usable session       *)
(* returns None and does not raise.                                        *)
(***************************************************************************)
C10_LoadNeverRaises ==
    (op = "load" /\ cache_file \in BrokenFiles) => outcome = "none"

(***************************************************************************)
(*                      Properties of a save                               *)
(***************************************************************************)
(***************************************************************************)
(* C11: at every point during and after a save, an interrupted one         *)
(* included, the file holds either the whole text it held when the save    *)
(* was called or the whole text the save writes, never a part of one.      *)
(***************************************************************************)
C11_FileHoldsOldOrNew ==
    (save_pc \in {"writing", "returned", "killed"}) =>
        file_text \in {old_text, new_text}

(***************************************************************************)
(*                 Properties of the scraper's cookies file                *)
(***************************************************************************)
UsableExpiry(v) ==
    v.type \in {"number", "str"} /\ v.halves # 2 * NoExpiry

(***************************************************************************)
(* C12: every cookie _load_cookies returns has no usable expiry (absent,   *)
(* -1 or not a number) or an expiry strictly later than the time of the    *)
(* load, and the list it returns is never empty.                           *)
(***************************************************************************)
C12_LoadedCookiesNotExpired ==
    (op = "load" /\ generator = "StoreCredentialsNetworkScraper"
     /\ outcome = "session") =>
        /\ session_data.expires # <<>>
        /\ \A k \in DOMAIN session_data.expires :
             LET v == session_data.expires[k]
             IN  UsableExpiry(v) => v.halves > 2 * now

(***************************************************************************)
(*                      Properties of the API client                       *)
(***************************************************************************)
Structured(r) ==
    [status_code |-> r.status_code, success |-> r.success, data |-> r.data,
     signature |-> r.signature, timestamp |-> r.timestamp]

(***************************************************************************)
(* C13: when call_api is given a cookie string without a _m_h5_tk token,   *)
(* the dictionary it returns differs from the one a failure of the         *)
(* transport gives in a field other than the text of the error.            *)
(***************************************************************************)
C13_MissingTokenHasOwnErrorKind ==
    (/\ client_call = "call_api"
     /\ client_ret # None
     /\ ExtractTokenFromCookie(client_args.cookie_string).raised) =>
        \A e \in TransportErrors :
            Structured(client_ret.value)
                # Structured(ExceptionResult(client_args.api, e))

(***************************************************************************)
(* C14: generate_signature is a function of its four arguments alone:      *)
(* whatever the clock and the network do, the signature is the digest of   *)
(* token, timestamp, app_key and data joined by "&" in that order, no      *)
(* request is sent, and replacing any one argument by a different string   *)
(* while the other three stay changes the digested string.                 *)
(***************************************************************************)
C14_SignatureIsPureJoin ==
    (client_call = "generate_signature" /\ client_ret # None) =>
        LET a == client_args
            digested == SignatureString(a.token, a.timestamp, a.app_key,
                                        a.data)
        IN  /\ client_ret.value
                   = Md5Hash(a.token \o <<"&">> \o a.timestamp \o <<"&">>
                                 \o a.app_key \o <<"&">> \o a.data)
            /\ requests = 0
            /\ \A s \in Strings :
                 /\ s # a.token =>
                      SignatureString(s, a.timestamp, a.app_key, a.data)
                          # digested
                 /\ s # a.timestamp =>
                      SignatureString(a.token, s, a.app_key, a.data)
                          # digested
                 /\ s # a.app_key =>
                      SignatureString(a.token, a.timestamp, s, a.data)
                          # digested
                 /\ s # a.data =>
                      SignatureString(a.token, a.timestamp, a.app_key, s)
                          # digested

C14_SignedWithSeparatorInToken ==
    /\ client_call = "generate_signature"
    /\ client_ret # None
    /\ client_args.token = <<"&">>
    /\ client_args.timestamp = <<"a">>
    /\ client_args.app_key = <<>>
    /\ client_ret.value = Md5Hash(<<"&", "&", "a", "&", "&">> \o client_args.data)

(***************************************************************************)
(* C15: when a response came back whose body parses, call_api reports      *)
(* success exactly when the ret array of the parsed body has an entry      *)
(* containing SUCCESS, whatever the HTTP status of the response.           *)
(***************************************************************************)
C15_SuccessIffRetHasSuccess ==
    (/\ client_call = "call_api"
     /\ client_ret # None
     /\ RequestSent(client_args, client_env)
     /\ client_env.kind = "response"
     /\ client_env.body.kind = "jsonp") =>
        (client_ret.value.success <=> RetHasSuccess(client_env.body.ret))

(***************************************************************************)
(*                   Properties of the CAPTCHA solvers                     *)
(***************************************************************************)
(***************************************************************************)
(* C16: in detect_and_solve_captcha the strategy that sets the style of    *)
(* the handle and dispatches synthetic mouse events is the last resort:    *)
(* once it is the strategy to run, no pointer drag is run any more, the    *)
(* drag over the longer distance having been tried before it.              *)
(***************************************************************************)
C16_DomMutationIsLastResort ==
    [](Technique(solver_pc) = "dom_style_mutation"
          => [](Technique(solver_pc) # "pointer_drag"))

(***************************************************************************)
(* C17: _solve_captcha_challenge with max_attempts = 3.  A check that      *)
(* finds the marker never reports solved, so while the marker shows        *)
(* through the first two attempts the solver goes on to the third (the     *)
(* slide itself ends the call only when a page call raises, as a failure   *)
(* that leaves the attempt uncounted); and when the check at the head of   *)
(* the third attempt finds the marker gone, the solver reports solved      *)
(* there, not after using up its attempts.                                 *)
(***************************************************************************)
C17_SolvedOnThirdAttempt ==
    [][(/\ entry = "_solve_captcha_challenge"
        /\ max_attempts = 3
        /\ solver_pc' # solver_pc) =>
           /\ (/\ solver_pc \in {"start", "for_head", "verify"}
               /\ page_shows = "captcha"
               /\ captcha_attempts < 2 \/ solver_pc = "verify") =>
                  solver_result' = "pending"
           /\ (solver_pc = "slide" /\ solver_result' # "pending") =>
                  /\ solver_result' = "false"
                  /\ captcha_attempts' = captcha_attempts
           /\ (/\ solver_pc = "for_head"
               /\ captcha_attempts = 2
               /\ page_shows # "captcha") =>
                  /\ solver_pc' = "returned"
                  /\ solver_result' = "true"]_vars

C17_SolvedAfterTwoAttempts ==
    /\ entry = "_solve_captcha_challenge"
    /\ max_attempts = 3
    /\ solver_pc = "returned"
    /\ solver_result = "true"
    /\ captcha_attempts = 2
    /\ page_shows # "captcha"

(***************************************************************************)
(*                  Properties of the image extraction                     *)
(***************************************************************************)
RECURSIVE LeafPaths(_, _)
LeafPaths(obj, path) ==
    IF obj.type \in {"dict", "list"}
    THEN UNION {LeafPaths(obj.items[k], ChildPath(obj, path, k)) :
                   k \in DOMAIN obj.items}
    ELSE {[path |-> path, leaf |-> obj]}

ImageLeaves(obj) ==
    {l \in LeafPaths(obj, <<>>) : l.leaf.type = "str" /\ IsBase64Image(l.leaf)}

(***************************************************************************)
(* C18: after a body has been handled, every string leaf of it that        *)
(* satisfies the base64-image heuristic, at any depth and whatever leaves  *)
(* come before it, has an entry in the image table with its own JSON path. *)
(***************************************************************************)
C18_EveryImageLeafRecorded ==
    (handler_pc = "done") =>
        \A l \in ImageLeaves(json_data) :
            \E e \in image_table :
                e.json_path = l.path /\ e.base64_data = l.leaf

(***************************************************************************)
(* C19: after a body has been handled, no image string of it has more than *)
(* one entry in the image table; the image under data.data.url of a        *)
(* credential response has one entry, not one of the fast path and one of  *)
(* the recursive scan.                                                     *)
(***************************************************************************)
C19_EachImageRecordedOnce ==
    (handler_pc = "done") =>
        \A l \in LeafPaths(json_data, <<>>) :
            Cardinality({e \in image_table : e.json_path = l.path}) <= 1

(***************************************************************************)
(*                     Properties of the event loop                        *)
(***************************************************************************)
MidUpdate ==
    {"add_parsed_jsonp", "write_image", "add_image_format", "clear_images",
     "snapshot_images"}

(***************************************************************************)
(* C20: no coroutine is suspended in the middle of an update of the        *)
(* tables: while another coroutine (or none) holds the loop, a handler is  *)
(* not between the write of its entry and the additions to it, and the     *)
(* orchestrator is neither between clearing the two tables nor between     *)
(* the two reads of its snapshot.  So the entries a running coroutine      *)
(* finds are absent or complete, and the snapshot holds no half-written    *)
(* entry and no capture entry without the image entry written with it.     *)
(***************************************************************************)
C20_NoSuspensionMidUpdate ==
    /\ running # "orchestrator" => orch_pc \notin MidUpdate
    /\ \A h \in Handlers : running # h => resp_pc[h] \notin MidUpdate
    /\ running \notin Handlers =>
           /\ net_entry.state # "written"
           /\ img_entry.state # "written"
    /\ snap.network_data.state # "written"
    /\ snap.images.state # "written"
    /\ orch_pc = "returned" => snap.images = snap.network_data

C20_SnapshotOfHandlerEntries ==
    /\ orch_pc = "returned"
    /\ snap.network_data = Entry("complete", "handler_2")
    /\ snap.images = Entry("complete", "handler_2")
    /\ resp_pc["handler_1"] = "write_entry"

(***************************************************************************)
(*            Properties of the order of the phases of an attempt          *)
(***************************************************************************)
DataWaitPhase == {"wait_api_1", "wait_api_2", "image_wait"}

(***************************************************************************)
(* C21: within an attempt the data-wait phase (the waits for the           *)
(* credential API and the wait for certificate images) is entered only     *)
(* after _detect_captcha at initial load has returned and, when it         *)
(* detected a challenge, only after the solver run for it has returned:    *)
(* detection follows the navigation, a detected challenge leads to the     *)
(* solver and to nothing else, and the waits are entered from a detection  *)
(* that found nothing, from a failed solver run, or from the statements    *)
(* that follow a solved challenge.                                         *)
(***************************************************************************)
C21_DataWaitAfterCaptchaHandling ==
    [][/\ (pc' \in DataWaitPhase /\ pc \notin DataWaitPhase) =>
              \/ pc = "detect" /\ last' = "no_captcha"
              \/ pc = "solve" /\ last' = "captcha_solve_failed"
              \/ pc \in {"post_solve", "renavigated", "reloaded"}
       /\ last' = "captcha_detected" => pc = "detect" /\ pc' = "solve"
       /\ (pc' = "solve" /\ pc # "solve") =>
              pc = "detect" /\ last' = "captcha_detected"
       /\ (pc' = "detect" /\ pc # "detect") => pc = "navigating"
       /\ (pc' = "post_solve" /\ pc # "post_solve") =>
              pc = "solve" /\ last' = "captcha_solved"
       /\ (pc' = "renavigated" /\ pc # "renavigated") => pc = "post_solve"
       /\ (pc' = "reloaded" /\ pc # "reloaded") => pc = "wait_api_1"]_vars

(***************************************************************************)
(* The image wait begins after a detected challenge whose solver run       *)
(* returned without solving it.                                            *)
(***************************************************************************)
C21_WaitAfterFailedSolverRun ==
    /\ pc = "image_wait"
    /\ last = "captcha_solve_failed"
    /\ total_waited = 0

(***************************************************************************)
(* C22: validate_cookies reports valid exactly when at most two of the     *)
(* required cookie names are missing from the cookies it is given, and     *)
(* every required name is on exactly one of the two lists it returns.      *)
(* Stated of the call is_session_expired makes on the session in memory.   *)
(***************************************************************************)
C22_ValidIffAtMostTwoMissing ==
    (op = "is_session_expired" /\ generator \in Generators
        /\ session_data # NoSession) =>
        LET required == Range(EssentialCookies(generator))
            cookie_set == ParsedKeys(session_data.cookies)
            v == ValidationResult(generator, session_data.cookies)
        IN  /\ v.valid <=>
                   Cardinality(required \ cookie_set) <= MaxMissingEssential
            /\ Range(v.missing_essential) \cup Range(v.present_essential)
                   = required
            /\ Range(v.missing_essential) \cap Range(v.present_essential)
                   = {}
            /\ Len(v.missing_essential) + Len(v.present_essential)
                   = Cardinality(required)

(***************************************************************************)
(* C23: when the initial _setup_browser of scrape_store_credentials fails  *)
(* (the launch or the creation of the context raises), the exception       *)
(* leaves scrape_store_credentials at once: no page has been opened, no    *)
(* call of _scrape_single_store and no restart has been made, no result    *)
(* has been gathered, and nothing more happens in the call.                *)
(***************************************************************************)
C23_LaunchFailurePropagates ==
    [][/\ (pc = "start" /\ store_ids # <<>> /\ context' # "live") =>
              /\ pc' = "launch_raised"
              /\ results' = <<>>
              /\ invocations' = 0
              /\ pages' = {}
              /\ next_page' = 1
              /\ restarts' = <<>>
       /\ pc # "launch_raised"]_vars

(***************************************************************************)
(* The launch succeeded and the creation of the context raised.            *)
(***************************************************************************)
C23_ContextCreationRaised ==
    /\ pc = "launch_raised"
    /\ store_ids # <<>>
    /\ browser = "live"
    /\ context = "none"

(***************************************************************************)
(* A response of the credential API whose body has no image under          *)
(* data.data.url (keys missing, value not a string, or not longer than     *)
(* 100 characters) has been handled.                                       *)
(***************************************************************************)
HandledWithoutCredentialImage ==
    /\ handler_pc = "done"
    /\ credential_url
    /\ ~IsCredentialDataResponse(json_data, credential_url)

BatchAt(b) ==
    {products[k] : k \in (b + 1)..Min(b + batch_size, Len(products))}

BatchStarts == {b \in 0..(Len(products) - 1) : b % batch_size = 0}

NoDuplicates(s) == \A j, k \in DOMAIN s : s[j] = s[k] => j = k

(***************************************************************************)
(* C26: whatever the order in which the workers of a batch complete, the   *)
(* products of a batch are all in results, each with its CSV row, or all   *)
(* in failed_products, or the batch is not yet recorded; no batch is       *)
(* split and no product is in both lists.  Every batch before the current  *)
(* one is recorded, and when process_all_atomic ends without the operator  *)
(* stopping it every input product is in exactly one of the two lists.     *)
(***************************************************************************)
C26_BatchesAreAtomic ==
    LET succeeded == SeqRange(seller_results)
        failed == SeqRange(failed_products)
    IN  /\ csv_rows = seller_results
        /\ NoDuplicates(seller_results \o failed_products)
        /\ \A b \in BatchStarts :
             \/ BatchAt(b) \subseteq succeeded /\ BatchAt(b) \cap failed = {}
             \/ BatchAt(b) \subseteq failed /\ BatchAt(b) \cap succeeded = {}
             \/ BatchAt(b) \cap (succeeded \cup failed) = {}
        /\ \A b \in BatchStarts :
             b < batch_idx => BatchAt(b) \cap (succeeded \cup failed) # {}
        /\ \A b \in BatchStarts :
             b >= batch_idx => BatchAt(b) \cap (succeeded \cup failed) = {}
        /\ batch_pc = "done" => succeeded \cup failed = SeqRange(products)

(***************************************************************************)
(* The second worker of the first batch completed before the first, and    *)
(* the last batch failed and was skipped.                                  *)
(***************************************************************************)
C26_ReverseCompletionThenFailedBatch ==
    /\ batch_pc = "done"
    /\ batch_size = 2
    /\ seller_results = <<2, 1>>
    /\ csv_rows = <<2, 1>>
    /\ failed_products = <<3>>

(***************************************************************************)
(* C27: _detect_image_format returns the format that the magic number of   *)
(* the decoded payload implies (jpeg, png, gif, webp or bmp), also when    *)
(* the string carries a data:image/<fmt>;base64, prefix that declares      *)
(* another format.                                                         *)
(***************************************************************************)
C27_MagicNumberDecides ==
    (/\ helper = "_detect_image_format"
     /\ helper_ret # <<>>
     /\ Len(helper_arg.payload) >= Base64Prefix)
    => LET magic ==
               MagicFormat(B64Decode(SubSeq(helper_arg.payload, 1,
                                            Base64Prefix)).bytes)
       IN  magic # "None" => helper_ret = <<magic>>

(***************************************************************************)
(* The JSON values that a pair of parentheses of the text wraps.           *)
(***************************************************************************)
WrappedValues(text) ==
    {JsonLoads(SubSeq(text, a + 1, d - 1), Len(text)).value :
        <<a, d>> \in {p \in (DOMAIN text) \X (DOMAIN text) :
                        /\ p[1] < p[2]
                        /\ text[p[1]] = "("
                        /\ text[p[2]] = ")"
                        /\ JsonLoads(SubSeq(text, p[1] + 1, p[2] - 1),
                                     Len(text)).status = "ok"}}

(***************************************************************************)
(* C28: for every response text each JSONP parser returns the JSON object  *)
(* that callbackName(...) wraps, or None; it never raises, also for a text *)
(* with unmatched parentheses or with a wrapper around a body that is not  *)
(* JSON.                                                                   *)
(***************************************************************************)
C28_WrappedObjectOrNoneNeverRaises ==
    (helper \in JsonpParsers /\ helper_ret # <<>>)
    => /\ helper_ret[1].kind # "raised"
       /\ helper_ret[1].kind = "value"
          => helper_ret[1].value \in WrappedValues(helper_arg.text)

(***************************************************************************)
(* A call of _get_api_type on the URL of a response that handle_response   *)
(* captures has returned.                                                  *)
(***************************************************************************)
TaggedCapturedResponse ==
    /\ helper = "_get_api_type"
    /\ helper_ret # <<>>
    /\ IsCertificateApi(helper_arg)

(***************************************************************************)
(* C29: for every URL, the tag that _get_api_type assigns to a captured    *)
(* response is one of credential, license, certificate, shop_info and      *)
(* unknown.                                                                *)
(***************************************************************************)
C29_TagIsOneOfFive ==
    TaggedCapturedResponse
    => helper_ret[1] \in {"credential", "license", "certificate",
                          "shop_info", "unknown"}

(***************************************************************************)
(* C29, amended: for every URL, the tag that _get_api_type assigns to a    *)
(* captured response is one of credential, license, certificate,           *)
(* qualification, shop_info and unknown.                                   *)
(***************************************************************************)
C29_TagIsOneOfSix ==
    TaggedCapturedResponse
    => helper_ret[1] \in {"credential", "license", "certificate",
                          "qualification", "shop_info", "unknown"}

(***************************************************************************)
(* A captured response of a qualification API is tagged; so is one that    *)
(* only the AliExpress endpoint test lets through.                         *)
(***************************************************************************)
C29_QualificationTagged ==
    /\ TaggedCapturedResponse
    /\ helper_arg = <<"aliexpress.com", "mtop", "qualification">>
    /\ helper_ret = <<"qualification">>

(***************************************************************************)
(* C30: _wait_for_credential_api returns True whenever a credential        *)
(* response of the store is captured while it waits, also when an entry    *)
(* under the store's credential key existed when the wait began, and       *)
(* False only when none arrives before the timeout; so the first wait ends *)
(* in the image wait, not in the forced reload (or its failure), once such *)
(* a response has been captured during it.                                 *)
(***************************************************************************)
C30_CapturedWhileWaitingReturnsTrue ==
    [][(pc = "wait_api_1" /\ last = "credential_captured" /\ pc' # pc)
           => pc' = "image_wait"]_vars

(***************************************************************************)
(* C31: an attempt in which a challenge was detected and the solver        *)
(* reported failure is never returned with status success, and so the      *)
(* counter it has just incremented is not reset.  Stated of the first      *)
(* attempt of a run, before which the counter is zero: there the counter   *)
(* is positive at the return exactly when the solver run of this attempt   *)
(* at initial load failed.                                                 *)
(***************************************************************************)
C31_FailedSolverRunNeverSuccess ==
    [][(pc = "returned" /\ invocations = 1 /\ captcha_failure_count > 0)
           => /\ result.status # "success"
              /\ captcha_failure_count' >= captcha_failure_count]_vars

(***************************************************************************)
(* C32: when some product of a batch failed with TOKEN_EXPIRED in the      *)
(* first call of _process_atomic_batch for the batch, process_all_atomic   *)
(* goes to the prompt without a retry, whatever the order in which the     *)
(* futures completed and whatever the other errors of the batch.           *)
(***************************************************************************)
C32_TokenExpiredSkipsRetries ==
    [][(/\ batch_pc = "as_completed"
        /\ call_site = "first"
        /\ SeqRange(Batch) = Collected
        /\ \E e \in SeqRange(batch_errors) : e.error = "TOKEN_EXPIRED")
           => /\ batch_pc' = "after_retries"
              /\ token_expired'
              /\ retry_count' = 0]_vars

(***************************************************************************)
(* C33: when the first attempt on a target is about to begin, the CAPTCHA  *)
(* failure counter is strictly below max_captcha_attempts, whatever        *)
(* happened on earlier targets and whether or not a restart at the         *)
(* boundary succeeded.                                                     *)
(***************************************************************************)
C33_CounterBelowThresholdAtFirstAttempt ==
    (pc = "loop" /\ LoopContinues /\ attempt = 1)
        => captcha_failure_count < max_captcha_attempts

(***************************************************************************)
(* C34: the clearing at the start of an attempt on a target removes only   *)
(* entries of that target from the two tables, and the result an attempt   *)
(* returns for a target holds only entries of that target, also when the   *)
(* identifier of another target begins with the identifier of this one.    *)
(***************************************************************************)
C34_OnlyOwnEntriesClearedAndReturned ==
    [][/\ (pc = "loop" /\ LoopContinues)
            => \A e \in (network_data \ network_data')
                          \cup (image_data \ image_data') :
                   e.sid = CurrentStore
       /\ pc' = "returned"
            => \A e \in result'.network_data \cup result'.images :
                   e.sid = result'.store_id]_vars

(***************************************************************************)
(* C35: the pages open in the browser context stay bounded over a run:     *)
(* the page of an attempt is closed before the next attempt or target      *)
(* starts, so at most one scrape page is open at any time (the page of     *)
(* the health check is opened and closed inside _check_session_health).    *)
(***************************************************************************)
C35_AtMostOneScrapePageOpen ==
    /\ Cardinality(pages) <= 1
    /\ (pc = "loop" \/ pc = "boundary" \/ pc = "health") => pages = {}

(***************************************************************************)
(* C37: in the image-wait loop the wait interval runs through 1, 2, 4, 8,  *)
(* 8, ... seconds and never exceeds 8; every iteration that stays in the   *)
(* loop, an error iteration included, makes the accumulated wait strictly  *)
(* larger; and once the accumulated wait has reached max_wait no further   *)
(* iteration runs: the loop is left with no image returned.  Images are    *)
(* returned only by an iteration that began below max_wait.                *)
(***************************************************************************)
BackoffSteps == {<<1, 2>>, <<2, 4>>, <<4, 8>>, <<8, 8>>}

C37_BackoffBoundedAndLoopExits ==
    /\ [](pc = "image_wait"
            => /\ wait_time \in {1, 2, 4, 8}
               /\ total_waited < MaxWait + 8)
    /\ [][/\ (ImageWaitQuery /\ pc' = "image_wait")
               => /\ <<wait_time, wait_time'>> \in BackoffSteps
                  /\ total_waited' = total_waited + wait_time
                  /\ total_waited' > total_waited
          /\ (ImageWaitError /\ pc' = "image_wait")
               => /\ wait_time' = wait_time
                  /\ total_waited' > total_waited
          /\ (pc = "image_wait" /\ total_waited >= MaxWait)
               => \/ pc' = pc /\ <<total_waited, wait_time>>'
                                    = <<total_waited, wait_time>>
                                /\ last_captcha_check' = last_captcha_check
                  \/ /\ pc' \in {"final_wait", "returned"}
                     /\ image_data' = image_data]_vars

C37_TimedOutAfterErrorIteration ==
    /\ pc = "image_wait"
    /\ total_waited >= MaxWait
    /\ wait_time = 8
    /\ loop_errors > 0

(***************************************************************************)
(* C38: in the image-wait loop the CAPTCHA detection is run again at the   *)
(* start of exactly the iterations at which the accumulated wait is at     *)
(* least 10 seconds past the previous re-check (or past the start of the   *)
(* loop): a re-check happens only then and records the accumulated wait,   *)
(* and the image query of an iteration runs only when no re-check is due.  *)
(* With max_wait = 45 the loop therefore never reaches its timeout         *)
(* without a re-check.                                                     *)
(***************************************************************************)
C38_RecheckEveryTenSeconds ==
    /\ [][/\ ImageWaitCaptchaCheck
               => /\ total_waited - last_captcha_check >= 10
                  /\ last_captcha_check' = total_waited
          /\ ImageWaitQuery => total_waited - last_captcha_check < 10
          /\ (pc = "image_wait" /\ pc' = "image_wait"
                 /\ last_captcha_check' # last_captcha_check)
               => total_waited - last_captcha_check >= 10]_vars
    /\ []((pc = "image_wait" /\ total_waited >= 45)
              => last_captcha_check >= 10)

C38_RecheckedBeforeTimeout ==
    /\ pc = "image_wait"
    /\ total_waited >= 45
    /\ last_captcha_check >= 20
    /\ loop_errors = 0

(***************************************************************************)
(* C36: whenever EnhancedAliExpressClient._get_valid_cookies returns a     *)
(* result with success true, the cookie string of the result passes        *)
(* validate_cookies, also when the result comes from a forced refresh.     *)
(***************************************************************************)
C36_ReturnedCookiesAreValid ==
    (enh_pc \in {"after_cookies", "after_refresh"} /\ cookie_result.success)
        => ValidateCookies("CookieGenerator", cookie_result.cookies)

(***************************************************************************)
(* C39: one call of get_product_with_auto_cookies makes at most two        *)
(* browser launches and at most two product API calls, whatever the        *)
(* validation and API outcomes; _get_valid_cookies calls itself at most    *)
(* once; and the retry with fresh cookies is made only when the first      *)
(* call used cached cookies and auto_retry is on.                          *)
(***************************************************************************)
C39_AtMostTwoLaunchesAndTwoCalls ==
    /\ generations <= 2
    /\ api_calls <= 2
    /\ recursions <= 1
    /\ enh_pc = "after_refresh" => auto_retry /\ TopFrame.from_cache

====
